---------------------------- MODULE Spec2Model ----------------------------
(***************************************************************************)
(* A model of py-multiaddr: the transform engine (transforms.py), the      *)
(* codecs (codecs/*.py) and the Multiaddr value type (multiaddr.py).       *)
(*                                                                         *)
(* Representation.  A Python str is a sequence of Unicode code points and  *)
(* a Python bytes object is a sequence of numbers 0..255, so "/tcp/80" is  *)
(* <<47, 116, 99, 112, 47, 56, 48>>.  Only code points below 128 occur in  *)
(* the modelled inputs, for which UTF-8 maps a code point to the byte of   *)
(* the same number.  An outcome is a record [err, val]: err = "" for a     *)
(* normal return of val, otherwise the class of the exception raised.      *)
(***************************************************************************)
EXTENDS Integers, Sequences, FiniteSets, TLC

VARIABLES cur, src, op, prev, arg, out

\* the state of one call of DNSResolver.resolve on the address at hand
VARIABLES pc, opts, signal, calls, results, peer_id, resolved, ret

\* the address value and the last operation on it
mvars == <<cur, src, op, prev, arg, out>>

\* the call of the resolver
rvars == <<pc, opts, signal, calls, results, peer_id, resolved, ret>>

\* the protocol registry and whether it is locked; the flag the shared utf8
\* codec object keeps, and the calls the threads of the process are in
VARIABLES registry, locked, is_path, threads

\* what the operations on one address and the resolver leave alone
evars == <<registry, locked, is_path, threads>>

vars == <<mvars, rvars, evars>>

Ok(v) == [err |-> "", val |-> v]

Fail(e) == [err |-> e, val |-> <<>>]

\* an exception of class e carrying message m
FailMsg(e, m) == [err |-> e, val |-> m]

(***************************************************************************)
(* Model bounds.                                                           *)
(***************************************************************************)
\* longest buffer an encapsulate of the model may build, in bytes
MaxBuf == 8

(***************************************************************************)
(* Python str and bytes primitives used by the code.                       *)
(***************************************************************************)
SLASH == <<47>>

\* str.rstrip(c) for a single character c: s up to its last character
\* other than c
RStrip(s, c) ==
    LET keep == {i \in 1..Len(s) : s[i] # c}
    IN  IF keep = {} THEN <<>>
        ELSE SubSeq(s, 1, CHOOSE i \in keep : \A j \in keep : i >= j)

\* str.lstrip(c): s from its first character other than c
LStrip(s, c) ==
    LET keep == {i \in 1..Len(s) : s[i] # c}
    IN  IF keep = {} THEN <<>>
        ELSE SubSeq(s, CHOOSE i \in keep : \A j \in keep : i <= j, Len(s))

\* str.strip(c)
Strip(s, c) == LStrip(RStrip(s, c), c)

RECURSIVE SplitFrom(_, _, _)
\* str.split(c) of s from position `from` on: the segment up to the next c and
\* the segments after it
SplitFrom(s, c, from) ==
    LET hits == {i \in from..Len(s) : s[i] = c}
        Cut(i) == <<SubSeq(s, from, i - 1)>> \o SplitFrom(s, c, i + 1)
    IN  IF hits = {} THEN <<SubSeq(s, from, Len(s))>>
        ELSE Cut(CHOOSE i \in hits : \A j \in hits : i <= j)

Split(s, c) == SplitFrom(s, c, 1)

RECURSIVE JoinWith(_, _)
\* c.join(parts)
JoinWith(parts, c) ==
    IF parts = <<>> THEN <<>>
    ELSE IF Len(parts) = 1 THEN parts[1]
    ELSE parts[1] \o <<c>> \o JoinWith(Tail(parts), c)

RECURSIVE Concat(_)
\* "".join(parts) and b"".join(parts)
Concat(parts) ==
    IF parts = <<>> THEN <<>> ELSE parts[1] \o Concat(Tail(parts))

StartsWith(s, p) == Len(s) >= Len(p) /\ SubSeq(s, 1, Len(p)) = p

IsDigit(c) == c >= 48 /\ c <= 57

IsAlpha(c) == (c >= 65 /\ c <= 90) \/ (c >= 97 /\ c <= 122)

\* str.isalnum() on ASCII text
IsAlnum(s) == s # <<>> /\ \A i \in 1..Len(s) : IsDigit(s[i]) \/ IsAlpha(s[i])

RECURSIVE DecValue(_)
\* value of a string of decimal digits
DecValue(s) ==
    IF s = <<>> THEN 0 ELSE 10 * DecValue(SubSeq(s, 1, Len(s) - 1)) + (s[Len(s)] - 48)

RECURSIVE DecText(_)
\* str(n) for n >= 0
DecText(n) ==
    IF n < 10 THEN <<48 + n>> ELSE Append(DecText(n \div 10), 48 + (n % 10))

\* int(string, 10): digit strings of the modelled inputs (leading zeros accepted)
ParseInt(s) ==
    IF s # <<>> /\ Len(s) <= 6 /\ \A i \in 1..Len(s) : IsDigit(s[i])
    THEN Ok(DecValue(s)) ELSE Fail("ValueError")

(***************************************************************************)
(* The varint library: unsigned LEB128.                                    *)
(***************************************************************************)
RECURSIVE VarintEncode(_)
VarintEncode(n) ==
    IF n < 128 THEN <<n>> ELSE <<128 + (n % 128)>> \o VarintEncode(n \div 128)

RECURSIVE DecodeFrom(_, _, _, _)
\* varint.decode_stream, reading the byte after position pos; EOFError at the end
DecodeFrom(buf, pos, mult, acc) ==
    IF pos >= Len(buf) THEN [err |-> "EOFError", val |-> 0, pos |-> pos]
    ELSE LET i == buf[pos + 1]
             a == acc + (i % 128) * mult
         IN  IF i < 128 THEN [err |-> "", val |-> a, pos |-> pos + 1]
             ELSE DecodeFrom(buf, pos + 1, mult * 128, a)

DecodeStream(buf, pos) == DecodeFrom(buf, pos, 1, 0)

\* BytesIO.read(n) at position pos: at most n bytes, fewer at the end of the buffer
ReadAt(buf, pos, n) ==
    SubSeq(buf, pos + 1, IF pos + n <= Len(buf) THEN pos + n ELSE Len(buf))

(***************************************************************************)
(* UTF-8: encoding of the basic plane, decoding of one- and two-byte forms. *)
(***************************************************************************)
RECURSIVE Utf8Encode(_)
\* str.encode("utf-8")
Utf8Encode(s) ==
    IF s = <<>> THEN <<>>
    ELSE (IF s[1] < 128 THEN <<s[1]>>
          ELSE IF s[1] < 2048 THEN <<192 + (s[1] \div 64), 128 + (s[1] % 64)>>
          ELSE <<224 + (s[1] \div 4096), 128 + ((s[1] \div 64) % 64), 128 + (s[1] % 64)>>)
         \o Utf8Encode(Tail(s))

RECURSIVE Utf8Decode(_)
\* bytes.decode("utf-8"); UnicodeDecodeError on a byte sequence that is no
\* one- or two-byte form
Utf8Decode(b) ==
    IF b = <<>> THEN Ok(<<>>)
    ELSE IF b[1] < 128
         THEN LET r == Utf8Decode(Tail(b))
              IN  IF r.err # "" THEN r ELSE Ok(<<b[1]>> \o r.val)
    ELSE IF b[1] >= 194 /\ b[1] < 224 /\ Len(b) >= 2 /\ b[2] >= 128 /\ b[2] < 192
         THEN LET r == Utf8Decode(SubSeq(b, 3, Len(b)))
              IN  IF r.err # "" THEN r
                  ELSE Ok(<<(b[1] - 192) * 64 + (b[2] - 128)>> \o r.val)
    ELSE Fail("UnicodeDecodeError")

(***************************************************************************)
(* urllib.parse.quote and unquote.                                         *)
(***************************************************************************)
HexDigit(n) == IF n < 10 THEN 48 + n ELSE 55 + n

IsHex(c) == IsDigit(c) \/ (c >= 65 /\ c <= 70) \/ (c >= 97 /\ c <= 102)

HexValue(c) == IF IsDigit(c) THEN c - 48 ELSE IF c >= 97 THEN c - 87 ELSE c - 55

\* characters quote() never escapes: letters, digits and "_.-~"
IsUnreserved(c) == IsDigit(c) \/ IsAlpha(c) \/ c \in {95, 46, 45, 126}

RECURSIVE QuoteBytes(_, _)
QuoteBytes(b, safe) ==
    IF b = <<>> THEN <<>>
    ELSE (IF IsUnreserved(b[1]) \/ b[1] \in safe THEN <<b[1]>>
          ELSE <<37, HexDigit(b[1] \div 16), HexDigit(b[1] % 16)>>)
         \o QuoteBytes(Tail(b), safe)

\* urllib.parse.quote(s, safe): the UTF-8 bytes of s, escaped
Quote(s, safe) == QuoteBytes(Utf8Encode(s), safe)

RECURSIVE Unquote(_)
\* urllib.parse.unquote(s): %XX escapes replaced (an escaped byte of 128 or
\* more decodes to U+FFFD, the replacement character)
Unquote(s) ==
    IF s = <<>> THEN <<>>
    ELSE IF s[1] = 37 /\ Len(s) >= 3 /\ IsHex(s[2]) /\ IsHex(s[3])
         THEN LET v == 16 * HexValue(s[2]) + HexValue(s[3])
              IN  <<IF v < 128 THEN v ELSE 65533>> \o Unquote(SubSeq(s, 4, Len(s)))
    ELSE <<s[1]>> \o Unquote(Tail(s))

(***************************************************************************)
(* The base58 library (bitcoin alphabet).                                  *)
(***************************************************************************)
B58Alphabet ==
    <<49, 50, 51, 52, 53, 54, 55, 56, 57, 65, 66, 67, 68, 69, 70, 71, 72, 74,
      75, 76, 77, 78, 80, 81, 82, 83, 84, 85, 86, 87, 88, 89, 90, 97, 98, 99,
      100, 101, 102, 103, 104, 105, 106, 107, 109, 110, 111, 112, 113, 114,
      115, 116, 117, 118, 119, 120, 121, 122>>

IsB58(c) == \E i \in 1..Len(B58Alphabet) : B58Alphabet[i] = c

B58Index(c) == (CHOOSE i \in 1..Len(B58Alphabet) : B58Alphabet[i] = c) - 1

\* the quotient digits q of the first half of a digit string followed by
\* those of its second half, r[1], and the remainder r[2] of the whole
DivGlued(q, r) == <<q \o r[1], r[2]>>

RECURSIVE DivDigits(_, _, _, _)
\* long division of a big-endian digit string in base `from` by d, the carry
\* `rem` coming in from the left: <<quotient digits, remainder>>.  The string
\* is divided half by half, the remainder l[2] of the first half carried into
\* the second
DivDigits(digits, from, d, rem) ==
    LET Second(l, rest) == DivGlued(l[1], DivDigits(rest, from, d, l[2]))
    IN  IF Len(digits) > 1
        THEN Second(DivDigits(SubSeq(digits, 1, Len(digits) \div 2), from, d, rem),
                    SubSeq(digits, Len(digits) \div 2 + 1, Len(digits)))
        ELSE IF digits = <<>> THEN <<<<>>, rem>>
        ELSE <<<<(rem * from + digits[1]) \div d>>, (rem * from + digits[1]) % d>>

\* the three digits in base `to` of a remainder of a division by to^3
Three(r, to) == <<r \div (to * to), (r \div to) % to, r % to>>

RECURSIVE ToBaseCubed(_, _, _)
\* the digits in base `to` of the number whose division by to^3 left the
\* quotient qr[1], in base `from`, and the remainder qr[2]: three digits for
\* every division until the quotient is zero
ToBaseCubed(qr, from, to) ==
    IF \A i \in 1..Len(qr[1]) : qr[1][i] = 0 THEN Three(qr[2], to)
    ELSE ToBaseCubed(DivDigits(qr[1], from, to * to * to, 0), from, to)
         \o Three(qr[2], to)

\* the number with big-endian digits `digits` in base `from`, written in base `to`
\* without leading zeros
ToBase(digits, from, to) ==
    LStrip(ToBaseCubed(DivDigits(digits, from, to * to * to, 0), from, to), 0)

LeadingCount(s, c) == Len(s) - Len(LStrip(s, c))

\* base58.b58decode(v): ValueError on a character outside the alphabet
B58Decode(v) ==
    IF \E i \in 1..Len(v) : ~IsB58(v[i]) THEN Fail("ValueError")
    ELSE LET digits == [i \in 1..Len(v) |-> B58Index(v[i])]
         IN  Ok([i \in 1..LeadingCount(digits, 0) |-> 0] \o ToBase(digits, 58, 256))

\* base58.b58encode(b)
B58Encode(b) ==
    LET digits == ToBase(b, 256, 58)
    IN  [i \in 1..LeadingCount(b, 0) |-> 49]
        \o [i \in 1..Len(digits) |-> B58Alphabet[digits[i] + 1]]

(***************************************************************************)
(* The protocol registry (protocols.py) and the codec table                *)
(* (codecs/__init__.py).  Neither file is part of the sources at hand: the *)
(* table follows the multiaddr protocol table (codes, names, codecs) that  *)
(* the specification's wire format refers to, and the codec of each        *)
(* protocol is the one the tests and the codecs' own code name.            *)
(***************************************************************************)
N_ip4 == <<105, 112, 52>>

N_tcp == <<116, 99, 112>>

N_udp == <<117, 100, 112>>

N_ip6zone == <<105, 112, 54, 122, 111, 110, 101>>

N_dns4 == <<100, 110, 115, 52>>

N_unix == <<117, 110, 105, 120>>

N_p2p == <<112, 50, 112>>

N_p2p_circuit == <<112, 50, 112, 45, 99, 105, 114, 99, 117, 105, 116>>

N_ip6 == <<105, 112, 54>>

N_dns == <<100, 110, 115>>

N_dns6 == <<100, 110, 115, 54>>

N_dnsaddr == <<100, 110, 115, 97, 100, 100, 114>>

P_IP4 == 4

P_TCP == 6

P_UDP == 273

P_IP6ZONE == 42

P_DNS4 == 54

P_P2P_CIRCUIT == 290

P_UNIX == 400

P_P2P == 421

P_IP6 == 41

P_DNS == 53

P_DNS6 == 55

P_DNSADDR == 56

\* codec "none" stands for Protocol.codec = None
PROTOCOLS ==
    << [code |-> P_IP4,         name |-> N_ip4,         codec |-> "ip4"],
       [code |-> P_TCP,         name |-> N_tcp,         codec |-> "uint16be"],
       [code |-> P_UDP,         name |-> N_udp,         codec |-> "uint16be"],
       [code |-> P_IP6ZONE,     name |-> N_ip6zone,     codec |-> "utf8"],
       [code |-> P_DNS4,        name |-> N_dns4,        codec |-> "domain"],
       [code |-> P_P2P_CIRCUIT, name |-> N_p2p_circuit, codec |-> "none"],
       [code |-> P_UNIX,        name |-> N_unix,        codec |-> "fspath"],
       [code |-> P_P2P,         name |-> N_p2p,         codec |-> "cid"],
       [code |-> P_IP6,         name |-> N_ip6,         codec |-> "ip6"],
       [code |-> P_DNS,         name |-> N_dns,         codec |-> "domain"],
       [code |-> P_DNS6,        name |-> N_dns6,        codec |-> "domain"],
       [code |-> P_DNSADDR,     name |-> N_dnsaddr,     codec |-> "domain"] >>

NoProtocol == [code |-> -1, name |-> <<>>, codec |-> "none"]

HasName(name) == \E i \in 1..Len(PROTOCOLS) : PROTOCOLS[i].name = name

HasCode(code) == \E i \in 1..Len(PROTOCOLS) : PROTOCOLS[i].code = code

\* protocol_with_name: ProtocolNotFoundError when HasName is false
protocol_with_name(name) ==
    IF HasName(name)
    THEN PROTOCOLS[CHOOSE i \in 1..Len(PROTOCOLS) : PROTOCOLS[i].name = name]
    ELSE NoProtocol

\* protocol_with_code: ProtocolNotFoundError when HasCode is false
protocol_with_code(code) ==
    IF HasCode(code)
    THEN PROTOCOLS[CHOOSE i \in 1..Len(PROTOCOLS) : PROTOCOLS[i].code = code]
    ELSE NoProtocol

\* codecs.LENGTH_PREFIXED_VAR_SIZE
LENGTH_PREFIXED_VAR_SIZE == -1

\* Codec.SIZE of each codec module, in bits; codec_by_name(None) is the empty
\* codec of size 0
CodecSize(codec) ==
    CASE codec = "ip4"      -> 32
      [] codec = "uint16be" -> 16
      [] codec = "domain"   -> -1
      [] codec = "fspath"   -> LENGTH_PREFIXED_VAR_SIZE
      [] codec = "cid"      -> LENGTH_PREFIXED_VAR_SIZE
      [] codec = "utf8"     -> 0
      [] codec = "ip6"      -> 128
      [] OTHER              -> 0

(***************************************************************************)
(* Codecs.  to_bytes(proto, string) and to_string(proto, buf) of each      *)
(* codec; the outcome's err is the class of the exception raised.          *)
(***************************************************************************)
\* codecs/uint16be.py
Uint16beToBytes(string) ==
    LET n == ParseInt(string)
    IN  IF n.err # "" THEN Fail("ValueError")
        ELSE IF n.val < 0 \/ n.val >= 65536 THEN Fail("ValueError")
        ELSE Ok(<<n.val \div 256, n.val % 256>>)

Uint16beToString(buf) ==
    IF Len(buf) # 2 THEN Fail("ValueError")
    ELSE Ok(DecText(buf[1] * 256 + buf[2]))

\* one decimal octet of a dotted quad
IsOctet(s) ==
    /\ ParseInt(s).err = ""
    /\ Len(s) <= 3
    /\ (Len(s) > 1 => s[1] # 48)
    /\ ParseInt(s).val <= 255

\* codecs/ip4.py: dotted quad to the raw 4-byte address and back
Ip4ToBytes(string) ==
    LET parts == Split(string, 46)
    IN  IF Len(parts) = 4 /\ \A i \in 1..4 : IsOctet(parts[i])
        THEN Ok([i \in 1..4 |-> ParseInt(parts[i]).val])
        ELSE Fail("AddrFormatError")

Ip4ToString(buf) ==
    IF Len(buf) # 4 THEN Fail("ValueError")
    ELSE Ok(JoinWith([i \in 1..4 |-> DecText(buf[i])], 46))

\* a group of an IPv6 text: one to four hexadecimal digits
IsHextet(s) == Len(s) \in 1..4 /\ \A i \in 1..Len(s) : IsHex(s[i])

RECURSIVE HexNumber(_)
\* value of a string of hexadecimal digits
HexNumber(s) ==
    IF s = <<>> THEN 0
    ELSE 16 * HexNumber(SubSeq(s, 1, Len(s) - 1)) + HexValue(s[Len(s)])

RECURSIVE HexText(_)
\* "%x" % n
HexText(n) ==
    LET d == n % 16
        c == IF d < 10 THEN 48 + d ELSE 87 + d
    IN  IF n < 16 THEN <<c>> ELSE Append(HexText(n \div 16), c)

\* the groups of the text on one side of "::"; no text, no groups
Hextets(s) == IF s = <<>> THEN <<>> ELSE Split(s, 58)

\* netaddr.IPAddress(string, version=6) as inet_pton reads it: eight groups,
\* or fewer around one "::"; the modelled texts embed no dotted quad
Ip6Words(string) ==
    LET gaps == {i \in 1..(Len(string) - 1) : string[i] = 58 /\ string[i + 1] = 58}
        Valid(groups) == \A i \in 1..Len(groups) : IsHextet(groups[i])
        Filled(head, tail) ==
            IF Valid(head) /\ Valid(tail) /\ Len(head) + Len(tail) <= 7
            THEN Ok([i \in 1..Len(head) |-> HexNumber(head[i])]
                    \o [i \in 1..(8 - Len(head) - Len(tail)) |-> 0]
                    \o [i \in 1..Len(tail) |-> HexNumber(tail[i])])
            ELSE Fail("AddrFormatError")
        Around(g) == Filled(Hextets(SubSeq(string, 1, g - 1)),
                            Hextets(SubSeq(string, g + 2, Len(string))))
        Plain(groups) ==
            IF Len(groups) = 8 /\ Valid(groups)
            THEN Ok([i \in 1..8 |-> HexNumber(groups[i])])
            ELSE Fail("AddrFormatError")
    IN  IF gaps = {} THEN Plain(Split(string, 58))
        ELSE Around(CHOOSE g \in gaps : \A h \in gaps : g <= h)

\* codecs/ip6.py, Codec.to_bytes: the packed 16 bytes
Ip6ToBytes(string) ==
    LET Packed(w) ==
            IF w.err # "" THEN w
            ELSE Ok([i \in 1..16 |-> IF i % 2 = 1 THEN w.val[(i + 1) \div 2] \div 256
                                     ELSE w.val[i \div 2] % 256])
    IN  Packed(Ip6Words(string))

\* the run of zero groups of w that starts at i
RECURSIVE ZeroRun(_, _)
ZeroRun(w, i) == IF i <= Len(w) /\ w[i] = 0 THEN 1 + ZeroRun(w, i + 1) ELSE 0

\* inet_ntop(AF_INET6): the first longest run of two or more zero groups is
\* written "::"; an address of 96 zero bits (other than :: and ::1) or with
\* the ::ffff:0:0/96 prefix ends in a dotted quad
Ip6Text(w) ==
    LET longest == CHOOSE n \in 0..8 :
                       /\ \E i \in 1..8 : ZeroRun(w, i) = n
                       /\ \A i \in 1..8 : ZeroRun(w, i) <= n
        base == CHOOSE i \in 1..8 :
                    /\ ZeroRun(w, i) = longest
                    /\ \A j \in 1..(i - 1) : ZeroRun(w, j) < longest
        Groups(from, to) == JoinWith([i \in 1..(to - from + 1) |-> HexText(w[from + i - 1])], 58)
        Quad == JoinWith(<<DecText(w[7] \div 256), DecText(w[7] % 256),
                          DecText(w[8] \div 256), DecText(w[8] % 256)>>, 46)
    IN  IF longest < 2 THEN Groups(1, 8)
        ELSE IF base = 1 /\ (longest = 6 \/ (longest = 7 /\ w[8] # 1))
        THEN <<58, 58>> \o Quad
        ELSE IF base = 1 /\ longest = 5 /\ w[6] = 65535
        THEN <<58, 58, 102, 102, 102, 102, 58>> \o Quad
        ELSE Groups(1, base - 1) \o <<58, 58>> \o Groups(base + longest, 8)

\* codecs/ip6.py, Codec.to_string: int.from_bytes(buf, 'big') written as an
\* IPv6 address, so a short buffer counts as the low-order bytes
Ip6ToString(buf) ==
    IF Len(buf) > 16 THEN Fail("AddrFormatError")
    ELSE LET b == [i \in 1..(16 - Len(buf)) |-> 0] \o buf
         IN  Ok(Ip6Text([i \in 1..8 |-> b[2 * i - 1] * 256 + b[2 * i]]))

\* idna.check_label on ASCII labels: not empty, letters a-z, digits and "-",
\* no "-" at either end nor in both the third and fourth place
IdnaLabelOk(label) ==
    /\ label # <<>>
    /\ \A i \in 1..Len(label) :
          IsDigit(label[i]) \/ (label[i] >= 97 /\ label[i] <= 122) \/ label[i] = 45
    /\ label[1] # 45
    /\ label[Len(label)] # 45
    /\ ~(Len(label) >= 4 /\ label[3] = 45 /\ label[4] = 45)

\* codecs/domain.py, class Codec
DomainToBytes(string) == Ok(Utf8Encode(string))

DomainToString(buf) ==
    LET d == Utf8Decode(buf)
    IN  IF d.err # "" THEN Fail("BinaryParseError")
        ELSE LET labels == Split(d.val, 46)
             IN  IF \A i \in 1..Len(labels) : IdnaLabelOk(labels[i])
                 THEN Ok(d.val) ELSE Fail("BinaryParseError")

\* value.replace("\\", "/")
ReplaceBackslash(s) == [i \in 1..Len(s) |-> IF s[i] = 92 THEN 47 ELSE s[i]]

\* codecs/fspath.py
FspathToBytes(value) ==
    IF value = <<>> THEN Fail("ValueError")
    ELSE LET v == Strip(ReplaceBackslash(value), 47)
         IN  IF v = <<>> THEN Fail("ValueError")
             ELSE Ok(Utf8Encode(Unquote(v)))

FspathToString(buf) ==
    IF buf = <<>> THEN Fail("ValueError")
    ELSE LET d == Utf8Decode(buf)
         IN  IF d.err # "" THEN Fail("BinaryParseError")
             ELSE LET v == Strip(ReplaceBackslash(d.val), 47)
                  IN  IF v = <<>> THEN Fail("ValueError")
                      ELSE Ok(Quote(v, {47}))

\* codecs/cid.py, _is_binary_cidv0_multihash: the base58 round trip of buf
is_binary_cidv0_multihash(buf) ==
    LET Same(decoded) ==
            decoded.err = "" /\ Len(decoded.val) = Len(buf) /\ decoded.val = buf
    IN  Same(B58Decode(B58Encode(buf)))

\* cid.make_cid(value): none of the modelled texts that fail base58 decoding
\* is a CID in a multibase encoding
MakeCid(value) == Fail("ValueError")

\* codecs/cid.py, Codec.to_bytes
CidToBytes(value) ==
    IF value = <<>> THEN Fail("ValueError")
    ELSE LET Prefixed(cid_bytes) == Ok(VarintEncode(Len(cid_bytes)) \o cid_bytes)
             Parsed(parsed) ==
                 IF parsed.err # "" THEN Fail("ValueError") ELSE Prefixed(parsed.val)
             Decoded(decoded) ==
                 IF decoded.err = "" /\ is_binary_cidv0_multihash(decoded.val)
                 THEN Prefixed(decoded.val)
                 ELSE Parsed(MakeCid(value))
         IN  Decoded(B58Decode(value))

\* codecs/cid.py, Codec.to_string: the CIDv1 branch is taken only when the
\* base58 round trip of buf fails
CidToString(buf) ==
    IF buf = <<>> THEN Fail("ValueError")
    ELSE IF is_binary_cidv0_multihash(buf) THEN Ok(B58Encode(buf))
    ELSE Fail("BinaryParseError")

\* str.strip() of whitespace
StripSpace(s) == Strip(s, 32)

\* codecs/utf8.py, Codec.to_bytes
Utf8ToBytes(proto, value) ==
    IF value = <<>> THEN Fail("ValueError")
    ELSE LET u == Unquote(value)
             v == IF proto.name = N_ip6zone THEN StripSpace(u) ELSE u
         IN  IF v = <<>> THEN Fail("ValueError")
             ELSE LET Prefixed(encoded) == Ok(VarintEncode(Len(encoded)) \o encoded)
                  IN  Prefixed(Utf8Encode(v))

\* Codec.to_string with `safe='/%'` for `safe='%'`: a slash in the value is
\* left as it is
Utf8ToStringSlashSafe(proto, buf) ==
    IF buf = <<>> THEN Fail("ValueError")
    ELSE LET d == Utf8Decode(buf)
         IN  IF d.err # "" THEN Fail("BinaryParseError")
             ELSE LET v == IF proto.name = N_ip6zone THEN StripSpace(d.val) ELSE d.val
                  IN  IF v = <<>> THEN Fail("ValueError")
                      ELSE Ok(Quote(v, {37, 47}))

\* codecs/utf8.py, Codec.to_string
Utf8ToString(proto, buf) ==
    IF buf = <<>> THEN Fail("ValueError")
    ELSE LET d == Utf8Decode(buf)
         IN  IF d.err # "" THEN Fail("BinaryParseError")
             ELSE LET v == IF proto.name = N_ip6zone THEN StripSpace(d.val) ELSE d.val
                  IN  IF v = <<>> THEN Fail("ValueError")
                      ELSE Ok(Quote(v, {37}))

\* codec.to_bytes(proto, value) of the codec named `codec`
CodecToBytes(codec, proto, value) ==
    CASE codec = "ip4"      -> Ip4ToBytes(value)
      [] codec = "uint16be" -> Uint16beToBytes(value)
      [] codec = "domain"   -> DomainToBytes(value)
      [] codec = "fspath"   -> FspathToBytes(value)
      [] codec = "cid"      -> CidToBytes(value)
      [] codec = "utf8"     -> Utf8ToBytes(proto, value)
      [] codec = "ip6"      -> Ip6ToBytes(value)
      [] OTHER              -> Fail("AttributeError")

\* codec.to_string(proto, buf) of the codec named `codec`
CodecToString(codec, proto, buf) ==
    CASE codec = "ip4"      -> Ip4ToString(buf)
      [] codec = "uint16be" -> Uint16beToString(buf)
      [] codec = "domain"   -> DomainToString(buf)
      [] codec = "fspath"   -> FspathToString(buf)
      [] codec = "cid"      -> CidToString(buf)
      [] codec = "utf8"     -> Utf8ToString(proto, buf)
      [] codec = "ip6"      -> Ip6ToString(buf)
      [] OTHER              -> Fail("AttributeError")

\* Codec.IS_PATH; the utf8 codec reports the flag its last call set, which is
\* true exactly for ip6zone
CodecIsPath(codec, proto) ==
    codec = "fspath" \/ (codec = "utf8" /\ proto.name = N_ip6zone)

(***************************************************************************)
(* transforms.py                                                           *)
(***************************************************************************)
RECURSIVE SkipEmpty(_)
\* while sp and not sp[0]: sp.pop(0)
SkipEmpty(sp) == IF sp # <<>> /\ sp[1] = <<>> THEN SkipEmpty(Tail(sp)) ELSE sp

Item(proto, value, hasval) ==
    [proto |-> proto, codec |-> proto.codec, value |-> value, hasval |-> hasval]

\* does string_iter ask for a value after this protocol's name
WantsValue(proto) == proto.codec # "none" /\ CodecSize(proto.codec) # 0

RECURSIVE StringIterLoop(_, _)
\* the while loop of string_iter over the segments sp; acc holds what was yielded
StringIterLoop(sp, acc) ==
    LET \* the path protocol takes every segment that is left
        Path(proto, path_value) ==
            IF path_value = <<>>
            THEN FailMsg("StringParseError", "Protocol requires path")
            ELSE IF CodecToBytes(proto.codec, proto, path_value).err # ""
                 THEN FailMsg("StringParseError", "Invalid path value")
                 ELSE Ok(Append(acc, Item(proto, path_value, TRUE)))
        \* another protocol takes the next segment that is not empty
        Value(proto, sp2) ==
            IF sp2 = <<>>
            THEN FailMsg("StringParseError", "Protocol requires address")
            ELSE IF CodecToBytes(proto.codec, proto, sp2[1]).err = ""
                 THEN StringIterLoop(Tail(sp2), Append(acc, Item(proto, sp2[1], TRUE)))
                 ELSE IF IsAlnum(sp2[1]) /\ HasName(sp2[1])
                      THEN FailMsg("StringParseError", "Protocol requires a value")
                      ELSE FailMsg("StringParseError", "Invalid value")
        Element(proto, rest) ==
            IF ~WantsValue(proto)
            THEN StringIterLoop(rest, Append(acc, Item(proto, <<>>, FALSE)))
            ELSE IF proto.name = N_unix THEN Path(proto, JoinWith(rest, 47))
            ELSE Value(proto, SkipEmpty(rest))
    IN  IF sp = <<>> THEN Ok(acc)
        ELSE IF sp[1] = <<>> THEN StringIterLoop(Tail(sp), acc)
        ELSE IF ~HasName(sp[1])
             THEN FailMsg("StringParseError", "Unknown Protocol")
        ELSE Element(protocol_with_name(sp[1]), Tail(sp))

\* string_iter(string): the tuples it yields, or the StringParseError it raises
string_iter(string) ==
    IF string = <<>> THEN FailMsg("StringParseError", "Empty string")
    ELSE IF ~StartsWith(string, SLASH)
         THEN FailMsg("StringParseError", "Must begin with /")
    ELSE StringIterLoop(Tail(Split(RStrip(string, 47), 47)), <<>>)

\* the bytes string_to_bytes appends for one tuple of string_iter
EncodeItem(it) ==
    IF it.hasval
    THEN LET Encoded(buf) ==
                 IF buf.err # "" THEN FailMsg("StringParseError", "Invalid value")
                 ELSE Ok(VarintEncode(it.proto.code)
                         \o (IF CodecSize(it.codec) = LENGTH_PREFIXED_VAR_SIZE
                             THEN VarintEncode(Len(buf.val)) ELSE <<>>)
                         \o buf.val)
         IN  Encoded(CodecToBytes(it.codec, it.proto, it.value))
    ELSE IF it.codec # "none" /\ CodecSize(it.codec) # 0
         THEN FailMsg("StringParseError", "Protocol requires a value")
         ELSE Ok(VarintEncode(it.proto.code))

RECURSIVE EncodeItems(_)
EncodeItems(items) ==
    IF items = <<>> THEN Ok(<<>>)
    ELSE LET Rest(h, t) == IF t.err # "" THEN t ELSE Ok(h.val \o t.val)
             First(h) == IF h.err # "" THEN h ELSE Rest(h, EncodeItems(Tail(items)))
         IN  First(EncodeItem(items[1]))

string_to_bytes(string) ==
    LET Encoded(it) == IF it.err # "" THEN it ELSE EncodeItems(it.val)
    IN  Encoded(string_iter(string))

RECURSIVE BytesToStringFrom(_, _)
\* the while loop of bytes_to_string from position pos; every exception in the
\* loop body is raised again as BinaryParseError
BytesToStringFrom(buf, pos) ==
    LET Joined(text, r) == IF r.err # "" THEN r ELSE Ok(text \o r.val)
        \* strings.append(...) and the rest of the loop from position next
        Append1(text, next) == Joined(text, BytesToStringFrom(buf, next))
        Value(proto, value, next) ==
            IF value.err # "" THEN Fail("BinaryParseError")
            ELSE Append1(SLASH \o proto.name
                         \o (IF CodecIsPath(proto.codec, proto)
                                /\ StartsWith(value.val, SLASH)
                             THEN value.val ELSE SLASH \o value.val),
                         next)
        Part(proto, part, at) ==
            Value(proto, CodecToString(proto.codec, proto, part), at + Len(part))
        Sized(proto, size) ==
            IF size.err # "" THEN Fail("BinaryParseError")
            ELSE Part(proto, ReadAt(buf, size.pos, size.val), size.pos)
        Proto(proto, at) ==
            IF proto.codec = "none" THEN Append1(SLASH \o proto.name, at)
            ELSE IF CodecSize(proto.codec) > 0
                 THEN Sized(proto, [err |-> "", val |-> CodecSize(proto.codec) \div 8,
                                    pos |-> at])
                 ELSE Sized(proto, DecodeStream(buf, at))
        Code(code) ==
            IF code.err # "" \/ ~HasCode(code.val) THEN Fail("BinaryParseError")
            ELSE Proto(protocol_with_code(code.val), code.pos)
    IN  IF pos >= Len(buf) THEN Ok(<<>>) ELSE Code(DecodeStream(buf, pos))

bytes_to_string(buf) == IF buf = <<>> THEN Ok(<<>>) ELSE BytesToStringFrom(buf, 0)

\* size_for_addr with `SIZE > 0` for `SIZE >= 0`, the test bytes_to_string
\* makes: a codec of size 0 then reads a length it does not have
size_for_addr_positive(codec, buf, pos) ==
    IF CodecSize(codec) > 0
    THEN [err |-> "", val |-> CodecSize(codec) \div 8, pos |-> pos]
    ELSE DecodeStream(buf, pos)

\* size_for_addr(codec, buf_io) with the stream at position pos
size_for_addr(codec, buf, pos) ==
    IF CodecSize(codec) >= 0
    THEN [err |-> "", val |-> CodecSize(codec) \div 8, pos |-> pos]
    ELSE DecodeStream(buf, pos)

RECURSIVE BytesIterFrom(_, _)
\* the generator bytes_iter from position pos: the tuples it yields and, in
\* err, the exception that ends it ("" when it ends normally)
BytesIterFrom(buf, pos) ==
    LET Yield(proto, part, r) ==
            [items |-> <<[offset |-> pos, proto |-> proto,
                          codec |-> proto.codec, part |-> part]>> \o r.items,
             err |-> r.err]
        Part(proto, part, at) ==
            Yield(proto, part, BytesIterFrom(buf, at + Len(part)))
        Sized(proto, size) ==
            IF size.err # "" THEN [items |-> <<>>, err |-> "EOFError"]
            ELSE Part(proto, ReadAt(buf, size.pos, size.val), size.pos)
        Proto(proto, at) == Sized(proto, size_for_addr(proto.codec, buf, at))
        Code(code) ==
            IF code.err # "" THEN [items |-> <<>>, err |-> "EOFError"]
            ELSE IF ~HasCode(code.val)
                 THEN [items |-> <<>>, err |-> "BinaryParseError"]
            ELSE Proto(protocol_with_code(code.val), code.pos)
    IN  IF pos >= Len(buf) THEN [items |-> <<>>, err |-> ""]
        ELSE Code(DecodeStream(buf, pos))

\* bytes_iter with `offset = buf_io.tell()` taken after the protocol code is
\* read instead of before
bytes_iter_late_offset(buf) ==
    LET Late(it) == [it EXCEPT !.offset = @ + Len(VarintEncode(it.proto.code))]
        Shifted(r) == [items |-> [i \in 1..Len(r.items) |-> Late(r.items[i])],
                       err |-> r.err]
    IN  Shifted(BytesIterFrom(buf, 0))

bytes_iter(buf) == BytesIterFrom(buf, 0)

(***************************************************************************)
(* multiaddr.py: the Multiaddr value over its byte buffer _bytes.          *)
(***************************************************************************)
\* Multiaddr(addr) for a str
FromString(string) == string_to_bytes(string)

\* Multiaddr.join(*addrs) for addrs given as buffers: construction from bytes
\* stores them as they are
join(addrs) == Concat(addrs)

\* encapsulate with the two addresses joined the wrong way round
encapsulate_swapped(self, other) == join(<<other, self>>)

\* Multiaddr.encapsulate(other)
encapsulate(self, other) == join(<<self, other>>)

Max(S) == CHOOSE x \in S : \A y \in S : y <= x

Min(S) == CHOOSE x \in S : \A y \in S : x <= y

\* bytes.index(s2) for bytes.rindex(s2): the lowest index at which s2 occurs
index(s1, s2) ==
    LET at == {i \in 0..(Len(s1) - Len(s2)) : SubSeq(s1, i + 1, i + Len(s2)) = s2}
    IN  IF at = {} THEN -1 ELSE Min(at)

\* bytes.rindex(s2): the highest index (from 0) at which s2 occurs in s1, -1
\* for the ValueError of no occurrence
rindex(s1, s2) ==
    LET at == {i \in 0..(Len(s1) - Len(s2)) : SubSeq(s1, i + 1, i + Len(s2)) = s2}
    IN  IF at = {} THEN -1 ELSE Max(at)

\* Multiaddr.decapsulate(other), other given as its buffer s2
decapsulate(s1, s2) ==
    LET Before(idx) == IF idx = -1 THEN Ok(s1) ELSE Ok(SubSeq(s1, 1, idx))
    IN  Before(rindex(s1, s2))

\* Multiaddr.__str__
Str(self) == bytes_to_string(self)

\* SplitPart with `codec.SIZE > 0` for `codec.SIZE < 0`: the length prefix
\* goes to the fixed-size values and is left off the variable-size ones
SplitPartFixedPrefix(it) ==
    VarintEncode(it.proto.code)
    \o (IF CodecSize(it.codec) > 0 THEN VarintEncode(Len(it.part)) ELSE <<>>)
    \o it.part

\* the single-component buffer split re-assembles from one tuple of bytes_iter
SplitPart(it) ==
    VarintEncode(it.proto.code)
    \o (IF CodecSize(it.codec) < 0 THEN VarintEncode(Len(it.part)) ELSE <<>>)
    \o it.part

\* split with the loop left at `idx > maxsplit`: one single-component element
\* more before the remainder
split_one_late(self, maxsplit) ==
    LET Parts(it) ==
            IF maxsplit >= 0 /\ maxsplit + 1 < Len(it.items)
            THEN Ok([i \in 1..(maxsplit + 1) |-> SplitPart(it.items[i])]
                    \o <<SubSeq(self, it.items[maxsplit + 2].offset + 1, Len(self))>>)
            ELSE IF it.err # "" THEN Fail(it.err)
            ELSE Ok([i \in 1..Len(it.items) |-> SplitPart(it.items[i])])
    IN  Parts(bytes_iter(self))

\* Multiaddr.split(maxsplit): the generator is read up to tuple number maxsplit
\* (from 0) and no further
split(self, maxsplit) ==
    LET Parts(it) ==
            IF maxsplit >= 0 /\ maxsplit < Len(it.items)
            THEN Ok([i \in 1..maxsplit |-> SplitPart(it.items[i])]
                    \o <<SubSeq(self, it.items[maxsplit + 1].offset + 1, Len(self))>>)
            ELSE IF it.err # "" THEN Fail(it.err)
            ELSE Ok([i \in 1..Len(it.items) |-> SplitPart(it.items[i])])
    IN  Parts(bytes_iter(self))

\* Multiaddr.__len__
Length(self) ==
    LET Count(it) == IF it.err # "" THEN Fail(it.err) ELSE Ok(Len(it.items))
    IN  Count(bytes_iter(self))

\* YieldsValue with `codec.SIZE > 0` for `codec.SIZE != 0`: the values of the
\* variable-size codecs are taken for absent
YieldsValueFixed(codec) == CodecSize(codec) > 0

\* does MultiAddrItems.__iter__ decode a value for this codec
YieldsValue(codec) == CodecSize(codec) # 0

RECURSIVE ItemsFrom(_)
\* MultiAddrItems.__iter__ over the tuples of bytes_iter: the pairs it yields
\* and the exception that ends it
ItemsFrom(tuples) ==
    LET Yield(pair, r) == [items |-> <<pair>> \o r.items, err |-> r.err]
        Value(proto, v) ==
            IF v.err # "" THEN [items |-> <<>>, err |-> "BinaryParseError"]
            ELSE Yield([proto |-> proto, value |-> v.val, hasval |-> TRUE],
                       ItemsFrom(Tail(tuples)))
        Tuple(it) ==
            IF YieldsValue(it.codec)
            THEN Value(it.proto, CodecToString(it.codec, it.proto, it.part))
            ELSE Yield([proto |-> it.proto, value |-> <<>>, hasval |-> FALSE],
                       ItemsFrom(Tail(tuples)))
    IN  IF tuples = <<>> THEN [items |-> <<>>, err |-> ""] ELSE Tuple(tuples[1])

\* Multiaddr.items(), read to its end
items(self) ==
    LET Pairs(it, r) == IF r.err # "" THEN r ELSE [items |-> r.items, err |-> it.err]
        Tuples(it) == Pairs(it, ItemsFrom(it.items))
    IN  Tuples(bytes_iter(self))

\* the value absent: Python's None
None == [has |-> FALSE, value |-> <<>>]

Some(v) == [has |-> TRUE, value |-> v]

(***************************************************************************)
(* Multiaddr.decapsulate_code and Multiaddr.get_peer_id are called by the  *)
(* tests, the examples and the resolver; their bodies are not part of the  *)
(* sources at hand and are modelled from their description and the tests.  *)
(***************************************************************************)
\* decapsulate_code(code): the buffer up to the start of the last component of
\* protocol `code`, the whole buffer when there is none
decapsulate_code(self, code) ==
    LET Cut(tuples, hits) ==
            IF hits = {} THEN Ok(self)
            ELSE Ok(SubSeq(self, 1, tuples[Max(hits)].offset))
        Tuples(it) ==
            IF it.err # "" THEN Fail(it.err)
            ELSE Cut(it.items,
                     {i \in 1..Len(it.items) : it.items[i].proto.code = code})
    IN  Tuples(bytes_iter(self))

RECURSIVE PeerScan(_, _, _)
\* one pass over the components: a p2p-circuit forgets the peers before it;
\* ahead of any circuit the first p2p value is kept, behind one the p2p value
\* that comes last (test_circuit_peer_id_edge_cases expects the second of two
\* p2p components that follow the circuit)
PeerScan(its, relayed, found) ==
    IF its = <<>> THEN found
    ELSE IF its[1].proto.code = P_P2P_CIRCUIT
         THEN PeerScan(Tail(its), TRUE, None)
    ELSE IF its[1].proto.code = P_P2P /\ (relayed \/ ~found.has)
         THEN PeerScan(Tail(its), relayed, Some(its[1].value))
    ELSE PeerScan(Tail(its), relayed, found)

\* get_peer_id(): the peer the address leads to, None without any
get_peer_id(self) ==
    LET Peer(r) == IF r.err # "" THEN Fail(r.err) ELSE Ok(PeerScan(r.items, FALSE, None))
    IN  Peer(items(self))

(***************************************************************************)
(* The strings the model constructs addresses from.                       *)
(***************************************************************************)
\* "/"
S_slash ==
    <<47>>

\* "/tcp/80"
S_tcp_80 ==
    <<47, 116, 99, 112, 47, 56, 48>>

\* "/tcp/6/tcp/6"
S_tcp_6_tcp_6 ==
    <<47, 116, 99, 112, 47, 54, 47, 116, 99, 112, 47, 54>>

\* "/udp/1536"
S_udp_1536 ==
    <<47, 117, 100, 112, 47, 49, 53, 51, 54>>

\* "/ip4/1.2.3.4/tcp/80"
S_ip4_1d2d3d4_tcp_80 ==
    <<47, 105, 112, 52, 47, 49, 46, 50, 46, 51, 46, 52, 47, 116, 99,
    112, 47, 56, 48>>

\* "/dns4/a.b"
S_dns4_adb ==
    <<47, 100, 110, 115, 52, 47, 97, 46, 98>>

\* "/unix/a/b"
S_unix_a_b ==
    <<47, 117, 110, 105, 120, 47, 97, 47, 98>>

\* "/p2p/a"
S_p2p_a ==
    <<47, 112, 50, 112, 47, 97>>

\* "/p2p-circuit/p2p/b"
S_p2p_circuit_p2p_b ==
    <<47, 112, 50, 112, 45, 99, 105, 114, 99, 117, 105, 116, 47, 112,
    50, 112, 47, 98>>

\* "/ip6zone/x/tcp/80"
S_ip6zone_x_tcp_80 ==
    <<47, 105, 112, 54, 122, 111, 110, 101, 47, 120, 47, 116, 99, 112,
    47, 56, 48>>

\* "/tcp/80/"
S_tcp_80_slash ==
    <<47, 116, 99, 112, 47, 56, 48, 47>>

\* ""
S_empty ==
    <<>>

\* "/cancer"
S_cancer ==
    <<47, 99, 97, 110, 99, 101, 114>>

\* "/tcp/65536"
S_tcp_65536 ==
    <<47, 116, 99, 112, 47, 54, 53, 53, 51, 54>>

\* "/tcp/80/p2p"
S_tcp_80_p2p ==
    <<47, 116, 99, 112, 47, 56, 48, 47, 112, 50, 112>>

\* "/ip4/::1"
S_ip4_cc1 ==
    <<47, 105, 112, 52, 47, 58, 58, 49>>

\* "/ip6zone"
S_ip6zone ==
    <<47, 105, 112, 54, 122, 111, 110, 101>>

\* "/ip6zone/tcp/80/tcp/6"
S_ip6zone_tcp_80_tcp_6 ==
    <<47, 105, 112, 54, 122, 111, 110, 101, 47, 116, 99, 112, 47, 56,
    48, 47, 116, 99, 112, 47, 54>>

\* "/tcp"
S_tcp ==
    <<47, 116, 99, 112>>

\* "/p2p/tcp"
S_p2p_tcp ==
    <<47, 112, 50, 112, 47, 116, 99, 112>>

\* "tcp/80"
S_noslash_tcp_80 ==
    <<116, 99, 112, 47, 56, 48>>

\* "/unix"
S_unix ==
    <<47, 117, 110, 105, 120>>

\* "/tcp/6"
S_tcp_6 ==
    <<47, 116, 99, 112, 47, 54>>

\* "/tcp/1536"
S_tcp_1536 ==
    <<47, 116, 99, 112, 47, 49, 53, 51, 54>>

\* "/p2p-circuit"
S_p2p_circuit ==
    <<47, 112, 50, 112, 45, 99, 105, 114, 99, 117, 105, 116>>

\* "/p2p/b"
S_p2p_b ==
    <<47, 112, 50, 112, 47, 98>>

\* "/p2p/a/p2p/b"
S_p2p_a_p2p_b ==
    <<47, 112, 50, 112, 47, 97, 47, 112, 50, 112, 47, 98>>

\* "/p2p/a/p2p-circuit"
S_p2p_a_p2p_circuit ==
    <<47, 112, 50, 112, 47, 97, 47, 112, 50, 112, 45, 99, 105, 114,
    99, 117, 105, 116>>

\* "/p2p/a/p2p-circuit/p2p/b"
S_p2p_a_p2p_circuit_p2p_b ==
    <<47, 112, 50, 112, 47, 97, 47, 112, 50, 112, 45, 99, 105, 114,
    99, 117, 105, 116, 47, 112, 50, 112, 47, 98>>

\* "/p2p-circuit/p2p/a/p2p/b"
S_p2p_circuit_p2p_a_p2p_b ==
    <<47, 112, 50, 112, 45, 99, 105, 114, 99, 117, 105, 116, 47, 112,
    50, 112, 47, 97, 47, 112, 50, 112, 47, 98>>

\* "bafzbeigvf25ytwc3akrijfecaotc74udrhcxzh2cx3we5qqnw5vgrei4bm", the peer id of test_split as a
\* CIDv1 in base32
PEER_bafz ==
    <<98, 97, 102, 122, 98, 101, 105, 103, 118, 102, 50, 53, 121,
      116, 119, 99, 51, 97, 107, 114, 105, 106, 102, 101, 99, 97,
      111, 116, 99, 55, 52, 117, 100, 114, 104, 99, 120, 122, 104,
      50, 99, 120, 51, 119, 101, 53, 113, 113, 110, 119, 53, 118,
      103, 114, 101, 105, 52, 98, 109>>

\* "QmcgpsyWgH8Y8ajJz1Cu72KnS5uo2Aa2LpzU7kinSupNKC", the same peer id in base58btc
PEER_Qmcg ==
    <<81, 109, 99, 103, 112, 115, 121, 87, 103, 72, 56, 89, 56,
      97, 106, 74, 122, 49, 67, 117, 55, 50, 75, 110, 83, 53, 117,
      111, 50, 65, 97, 50, 76, 112, 122, 85, 55, 107, 105, 110,
      83, 117, 112, 78, 75, 67>>

\* "/p2p/" followed by each form of that peer id
S_p2p_bafz == <<47, 112, 50, 112, 47>> \o PEER_bafz

S_p2p_Qmcg == <<47, 112, 50, 112, 47>> \o PEER_Qmcg

\* strings that are multiaddrs by the string format: known protocol names,
\* each with the value its codec takes; the empty string and "/" for the
\* address of no component
ValidStrings ==
    {S_empty, S_slash, S_tcp_80, S_tcp_6_tcp_6, S_udp_1536, S_ip4_1d2d3d4_tcp_80,
     S_dns4_adb, S_unix_a_b, S_p2p_a, S_p2p_circuit_p2p_b,
     S_ip6zone_x_tcp_80, S_tcp_80_slash,
     S_p2p_a_p2p_b, S_p2p_a_p2p_circuit,
     S_p2p_a_p2p_circuit_p2p_b, S_p2p_circuit_p2p_a_p2p_b,
     S_p2p_bafz, S_p2p_Qmcg}

\* strings that are not: an unknown name, a missing value, a value the codec
\* of the protocol rejects, no leading slash
InvalidStrings ==
    {S_cancer, S_tcp_65536, S_tcp_80_p2p, S_ip4_cc1, S_ip6zone,
     S_ip6zone_tcp_80_tcp_6, S_tcp, S_p2p_tcp, S_noslash_tcp_80, S_unix}

InputStrings == ValidStrings \cup InvalidStrings

\* the addresses given as `other` to encapsulate and decapsulate, valid
\* strings all
OperandStrings ==
    {S_slash, S_tcp_6, S_tcp_1536, S_p2p_circuit, S_p2p_a, S_p2p_b}

\* the protocol codes given to decapsulate_code: every registered code and one
\* that is not registered
CodeInputs == {PROTOCOLS[i].code : i \in 1..Len(PROTOCOLS)} \cup {9999}

\* the maxsplit arguments given to split
SplitInputs == -1..2

(***************************************************************************)
(* The state: cur is the buffer of the address value at hand, src the      *)
(* string it was constructed from (while no operation has replaced it),    *)
(* op the last operation, prev its receiver, arg its argument and out its  *)
(* outcome.  A behaviour constructs one address from a string and, when    *)
(* the string is a valid one, applies operations to it.  The resolver's    *)
(* variables are described with resolvers/dns.py below: pc is the position *)
(* of the call of resolve, "ready" before it.                              *)
(***************************************************************************)
\* the state after ma = Multiaddr(s); when the constructor raises there is no
\* address to go on with
Construct(s) ==
    /\ op = "construct"
    /\ prev = <<>>
    /\ arg = s
    /\ out = FromString(s)
    /\ cur = (IF out.err = "" THEN out.val ELSE <<>>)
    /\ src = (IF out.err = "" THEN Some(s) ELSE None)

\* no call of resolve yet: the caller holds a cancel scope that is not cancelled
ResolverReady ==
    /\ pc = "ready"
    /\ opts = [max_recursive_depth |-> 0, signal |-> FALSE]
    /\ signal = "open"
    /\ calls = <<>>
    /\ results = <<>>
    /\ peer_id = None
    /\ resolved = None
    /\ ret = Ok(<<>>)

\* a registry holding these protocols, each by its code and its name
Registered(ps) == {[code |-> ps[i].code, name |-> ps[i].name] : i \in 1..Len(ps)}

\* the threads of the process
Threads == {1, 2}

\* a thread that is in no call
Idle ==
    [pc |-> "idle", kind |-> "", proto |-> NoProtocol, part |-> <<>>,
     value |-> <<>>, seen |-> FALSE, result |-> Ok(<<>>)]

\* the registry holds the built-in protocols and is locked, the utf8 codec
\* object is as Codec.__init__ leaves it and no thread is in a call
ProcessReady ==
    /\ registry = Registered(PROTOCOLS)
    /\ locked = TRUE
    /\ is_path = FALSE
    /\ threads = [t \in Threads |-> Idle]

Init == (\E s \in InputStrings : Construct(s)) /\ ResolverReady /\ ProcessReady

\* the address at hand was constructed from a valid string, or made from one
\* that was; the other strings are given to the constructor only
Alive == op = "construct" => (out.err = "" /\ arg \in ValidStrings)

\* ma = ma.encapsulate(Multiaddr(o))
Encapsulate(o) ==
    /\ Alive
    /\ op' = "encapsulate"
    /\ prev' = cur
    /\ arg' = FromString(o).val
    /\ Len(cur) + Len(arg') <= MaxBuf
    /\ out' = Ok(encapsulate(cur, arg'))
    /\ cur' = out'.val
    /\ src' = None
    /\ UNCHANGED <<rvars, evars>>

\* ma = ma.decapsulate(Multiaddr(o))
Decapsulate(o) ==
    /\ Alive
    /\ op' = "decapsulate"
    /\ prev' = cur
    /\ arg' = FromString(o).val
    /\ out' = decapsulate(cur, arg')
    /\ cur' = out'.val
    /\ src' = None
    /\ UNCHANGED <<rvars, evars>>

\* ma = ma.decapsulate_code(c)
DecapsulateCode(c) ==
    /\ Alive
    /\ op' = "decapsulate_code"
    /\ prev' = cur
    /\ arg' = c
    /\ out' = decapsulate_code(cur, c)
    /\ cur' = IF out'.err = "" THEN out'.val ELSE cur
    /\ src' = IF out'.err = "" THEN None ELSE src
    /\ UNCHANGED <<rvars, evars>>

\* parts = ma.split(m)
SplitOp(m) ==
    /\ Alive
    /\ op' = "split"
    /\ prev' = cur
    /\ arg' = m
    /\ out' = split(cur, m)
    /\ UNCHANGED <<cur, src>>
    /\ UNCHANGED <<rvars, evars>>

\* ma = parts[i - 1], one element of the last split
TakePart(i) ==
    /\ op = "split"
    /\ out.err = ""
    /\ i \in 1..Len(out.val)
    /\ op' = "take"
    /\ prev' = cur
    /\ arg' = i
    /\ out' = Ok(out.val[i])
    /\ cur' = out.val[i]
    /\ src' = None
    /\ UNCHANGED <<rvars, evars>>

\* ma = Multiaddr.join(*parts), the elements of the last split
JoinParts ==
    /\ op = "split"
    /\ out.err = ""
    /\ op' = "join"
    /\ prev' = cur
    /\ arg' = out.val
    /\ out' = Ok(join(out.val))
    /\ cur' = out'.val
    /\ src' = None
    /\ UNCHANGED <<rvars, evars>>

\* str(ma)
StrOp ==
    /\ Alive
    /\ op' = "str"
    /\ prev' = cur
    /\ arg' = <<>>
    /\ out' = Str(cur)
    /\ UNCHANGED <<cur, src>>
    /\ UNCHANGED <<rvars, evars>>

\* ma.get_peer_id()
GetPeerId ==
    /\ Alive
    /\ op' = "get_peer_id"
    /\ prev' = cur
    /\ arg' = <<>>
    /\ out' = get_peer_id(cur)
    /\ UNCHANGED <<cur, src>>
    /\ UNCHANGED <<rvars, evars>>

Next ==
    \/ \E o \in OperandStrings : Encapsulate(o)
    \/ \E o \in OperandStrings : Decapsulate(o)
    \/ \E c \in CodeInputs : DecapsulateCode(c)
    \/ \E m \in SplitInputs : SplitOp(m)
    \/ \E i \in 1..3 : TakePart(i)
    \/ JoinParts
    \/ StrOp
    \/ GetPeerId

Spec == Init /\ [][Next]_vars

(***************************************************************************)
(* resolvers/dns.py: DNSResolver.resolve, a coroutine.  Its only           *)
(* suspension points are the awaits of self._resolver.resolve(hostname,    *)
(* record_type); a step of the model runs the coroutine from one of them   *)
(* to the next.  pc is its position ("ready" before the call, "lookup"     *)
(* while a lookup is awaited, "done" after it returned or raised), opts    *)
(* the options of the call, signal the state of the cancel scope the       *)
(* caller holds, calls the lookups issued with the reply each one got,     *)
(* results and peer_id the local variables of that name, resolved what     *)
(* _resolve_dns or _resolve_dnsaddr returned (None when it fell off its    *)
(* end) and ret the outcome of resolve.                                    *)
(***************************************************************************)
\* DNSResolver.MAX_RECURSIVE_DEPTH
MAX_RECURSIVE_DEPTH == 32

\* DnsCodes with the ip4 code among the codes that are looked up
DnsCodesAndIp4 == {P_IP4, P_DNS, P_DNS4, P_DNS6, P_DNSADDR}

\* the codes `first_protocol.code` is looked for in
DnsCodes == {P_DNS, P_DNS4, P_DNS6, P_DNSADDR}

\* Multiaddr.value_for_protocol(code): the value of the first component of
\* that protocol, found before any later component is decoded
value_for_protocol(self, code) ==
    LET First(r, hits) ==
            IF hits # {}
            THEN Ok(IF r.items[Min(hits)].hasval
                    THEN Some(r.items[Min(hits)].value) ELSE None)
            ELSE IF r.err # "" THEN Fail(r.err)
            ELSE Fail("ProtocolLookupError")
        Pairs(r) == First(r, {i \in 1..Len(r.items) : r.items[i].proto.code = code})
    IN  Pairs(items(self))

\* the characters re.sub(r'[\'"\s]+', "", text) removes
IsQuoteOrSpace(c) == c \in {39, 34, 32, 9, 10, 11, 12, 13}

\* DNSResolver._clean_quotes
clean_quotes(text) == SelectSeq(text, LAMBDA c : ~IsQuoteOrSpace(c))

\* is_valid_peer_id of _resolve_dnsaddr
is_valid_peer_id(peer) ==
    LET Decoded(decoded) ==
            decoded.err = "" /\ Len(decoded.val) \in {34, 36, 38, 42, 46}
    IN  \/ Decoded(B58Decode(peer))
        \/ (peer # <<>> /\ peer[1] \in {98, 122} /\ Len(peer) > 40)

\* DepthExhausted with `max_depth < 0` for `max_depth <= 0`
DepthExhaustedBelowZero(max_depth) == max_depth < 0

\* the test of _resolve_dnsaddr that raises RecursionLimitError
DepthExhausted(max_depth) == max_depth <= 0

\* resolve from its call to its first await, or to its end when there is
\* none: where it stands then, and the lookup it awaits
ResolveEntry(maddr, max_depth) ==
    LET Done(r) == [pc |-> "done", ret |-> r, hostname |-> <<>>, rtype |-> "",
                    peer_id |-> None]
        Await(hostname, rtype, peer) ==
            [pc |-> "lookup", ret |-> Ok(<<>>), hostname |-> hostname,
             rtype |-> rtype, peer_id |-> peer]
        \* get_peer_id() in a try block that passes over every exception
        Peer(p) == IF p.err = "" THEN p.val ELSE None
        Dnsaddr(hostname) ==
            IF DepthExhausted(max_depth) THEN Done(Fail("RecursionLimitError"))
            ELSE Await(hostname, "A", Peer(get_peer_id(maddr)))
        Dns(hostname, code) ==
            Await(hostname, IF code \in {P_DNS, P_DNS4} THEN "A" ELSE "AAAA", None)
        Host(code, h) ==
            IF h.err # "" THEN Done(Fail(h.err))
            ELSE IF ~h.val.has \/ h.val.value = <<>> THEN Done(Ok(<<maddr>>))
            ELSE IF code = P_DNSADDR THEN Dnsaddr(clean_quotes(h.val.value))
            ELSE Dns(clean_quotes(h.val.value), code)
        First(code) ==
            IF code \notin DnsCodes THEN Done(Ok(<<maddr>>))
            ELSE Host(code, value_for_protocol(maddr, code))
        Protocols(it) ==
            IF it.err # "" THEN Done(Fail(it.err))
            ELSE IF it.items = <<>> THEN Done(Fail("ResolutionError"))
            ELSE First(it.items[1].proto.code)
    IN  Protocols(bytes_iter(maddr))

\* "ip4" for an A record, "ip6" for an AAAA record
Fam(rtype) == IF rtype = "A" THEN N_ip4 ELSE N_ip6

\* Multiaddr(f"/{fam}/{address}")
RecordAddr(fam, address) == FromString(SLASH \o fam \o SLASH \o address)

RECURSIVE DnsRecords(_, _)
\* the loop of _resolve_dns over the records of one answer: the addresses it
\* appends to results, or the exception of the first record that is no address
DnsRecords(fam, rdata) ==
    LET Rest(ma, r) == IF r.err # "" THEN r ELSE Ok(<<ma>> \o r.val)
        First(ma) ==
            IF ma.err # "" THEN Fail(ma.err)
            ELSE Rest(ma.val, DnsRecords(fam, Tail(rdata)))
    IN  IF rdata = <<>> THEN Ok(<<>>) ELSE First(RecordAddr(fam, rdata[1]))

RECURSIVE DnsaddrRecords(_, _, _)
\* the loop of _resolve_dnsaddr over the records of one answer: it returns
\* [ma] from inside the loop ("return"), appends to results ("append") or
\* raises ("raise")
DnsaddrRecords(fam, rdata, peer) ==
    LET Appended(ma, r) ==
            IF r.kind = "append" THEN [kind |-> "append", val |-> <<ma>> \o r.val]
            ELSE r
        \* ma.encapsulate(f"/p2p/{peer_id}"), `continue` when it raises
        WithPeer(ma, p2p) ==
            IF p2p.err = ""
            THEN [kind |-> "return", val |-> <<encapsulate(ma, p2p.val)>>]
            ELSE DnsaddrRecords(fam, Tail(rdata), peer)
        Record(ma) ==
            IF ma.err # "" THEN [kind |-> "raise", val |-> <<>>]
            ELSE IF peer.has /\ peer.value # <<>> /\ is_valid_peer_id(peer.value)
            THEN WithPeer(ma.val, FromString(SLASH \o N_p2p \o SLASH \o peer.value))
            ELSE Appended(ma.val, DnsaddrRecords(fam, Tail(rdata), peer))
    IN  IF rdata = <<>> THEN [kind |-> "append", val |-> <<>>]
        ELSE Record(RecordAddr(fam, rdata[1]))

\* Returned with `return resolved` for `return resolved if resolved else
\* [maddr]`
ReturnedAsIs(maddr, list) ==
    [pc |-> "done", results |-> list, resolved |-> Some(list),
     ret |-> Ok(list), next |-> ""]

\* the coroutine returns `resolved` from _resolve_dns or _resolve_dnsaddr and
\* resolve returns `resolved if resolved else [maddr]`
Returned(maddr, list) ==
    [pc |-> "done", results |-> list, resolved |-> Some(list),
     ret |-> Ok(IF list # <<>> THEN list ELSE <<maddr>>), next |-> ""]

\* trio.Cancelled leaves the await and is caught by the `with` block of the
\* cancel scope it belongs to; the function then runs off its end, returning
\* None, and resolve returns [maddr]
Unwound(maddr, res) ==
    [pc |-> "done", results |-> res, resolved |-> None,
     ret |-> Ok(<<maddr>>), next |-> ""]

\* an exception other than RecursionLimitError leaves resolve as e
Raised(res, e) ==
    [pc |-> "done", results |-> res, resolved |-> None, ret |-> Fail(e),
     next |-> ""]

\* the coroutine goes on to await the lookup of rtype
Again(res, rtype) ==
    [pc |-> "lookup", results |-> res, resolved |-> None, ret |-> Ok(<<>>),
     next |-> rtype]

\* DnsStep with every exception of a lookup passed over, not only NXDOMAIN and
\* NoAnswer
DnsStepPassingOver(maddr, code, rtype, res, reply) ==
    LET After(list) ==
            IF rtype = "A" /\ code \in {P_DNS, P_DNS6} THEN Again(list, "AAAA")
            ELSE Returned(maddr, list)
        Got(r) ==
            IF r.err # "" THEN Raised(res, "ResolutionError")
            ELSE After(res \o r.val)
    IN  CASE reply.kind = "answer" -> Got(DnsRecords(Fam(rtype), reply.rdata))
          [] reply.kind \in {"Cancelled", "Deadline"} -> Unwound(maddr, res)
          [] OTHER -> After(res)

\* DnsStep with the addresses of an answer put before those already in results
DnsStepPrepending(maddr, code, rtype, res, reply) ==
    LET After(list) ==
            IF rtype = "A" /\ code \in {P_DNS, P_DNS6} THEN Again(list, "AAAA")
            ELSE Returned(maddr, list)
        Got(r) ==
            IF r.err # "" THEN Raised(res, "ResolutionError")
            ELSE After(r.val \o res)
    IN  CASE reply.kind = "answer" -> Got(DnsRecords(Fam(rtype), reply.rdata))
          [] reply.kind \in {"NXDOMAIN", "NoAnswer"} -> After(res)
          [] reply.kind \in {"Cancelled", "Deadline"} -> Unwound(maddr, res)
          [] OTHER -> Raised(res, "ResolutionError")

\* _resolve_dns from the return of the lookup of rtype to the next await or
\* the end
DnsStep(maddr, code, rtype, res, reply) ==
    LET After(list) ==
            IF rtype = "A" /\ code \in {P_DNS, P_DNS6} THEN Again(list, "AAAA")
            ELSE Returned(maddr, list)
        Got(r) ==
            IF r.err # "" THEN Raised(res, "ResolutionError")
            ELSE After(res \o r.val)
    IN  CASE reply.kind = "answer" -> Got(DnsRecords(Fam(rtype), reply.rdata))
          [] reply.kind \in {"NXDOMAIN", "NoAnswer"} -> After(res)
          [] reply.kind \in {"Cancelled", "Deadline"} -> Unwound(maddr, res)
          [] OTHER -> Raised(res, "ResolutionError")

\* _resolve_dnsaddr from the return of the lookup of rtype to the next await
\* or the end
DnsaddrStep(maddr, rtype, res, peer, reply) ==
    LET After(list) ==
            IF rtype = "A" THEN Again(list, "AAAA") ELSE Returned(maddr, list)
        Got(r) ==
            CASE r.kind = "return" -> Returned(maddr, r.val)
              [] r.kind = "raise"  -> Raised(res, "ResolutionError")
              [] OTHER             -> After(res \o r.val)
    IN  CASE reply.kind = "answer" ->
                 Got(DnsaddrRecords(Fam(rtype), reply.rdata, peer))
          [] reply.kind \in {"NXDOMAIN", "NoAnswer"} -> After(res)
          [] reply.kind \in {"Cancelled", "Deadline"} -> Unwound(maddr, res)
          [] OTHER -> Raised(res, "ResolutionError")

\* protocols[0].code of an address with a first component
FirstCode(maddr) == bytes_iter(maddr).items[1].proto.code

\* the coroutine from the end of the awaited lookup to its next await or its
\* end
ResolveStep(maddr, rtype, res, peer, reply) ==
    LET Branch(code) ==
            IF code = P_DNSADDR THEN DnsaddrStep(maddr, rtype, res, peer, reply)
            ELSE DnsStep(maddr, code, rtype, res, reply)
    IN  Branch(FirstCode(maddr))

(***************************************************************************)
(* The addresses the model resolves, the options it passes and the replies *)
(* the lookups get.                                                        *)
(***************************************************************************)
\* "QmYyQSo1c1Ym7orWxLYvCrM2EmxFTANf8wXmmE7wjh53Qk"
PEER_Qm ==
    <<81, 109, 89, 121, 81, 83, 111, 49, 99, 49, 89, 109, 55, 111, 114,
      87, 120, 76, 89, 118, 67, 114, 77, 50, 69, 109, 120, 70, 84, 65,
      78, 102, 56, 119, 88, 109, 109, 69, 55, 119, 106, 104, 53, 51, 81,
      107>>

\* "Agytba7fhBHEmWWbXnLArsvBUSaBuZfqGw6GmyFzwPqDa"
PEER_33 ==
    <<65, 103, 121, 116, 98, 97, 55, 102, 104, 66, 72, 69, 109, 87, 87,
      98, 88, 110, 76, 65, 114, 115, 118, 66, 85, 83, 97, 66, 117, 90,
      102, 113, 71, 119, 54, 71, 109, 121, 70, 122, 119, 80, 113, 68,
      97>>

\* "/dns/a.b"
S_dns_adb ==
    <<47, 100, 110, 115, 47, 97, 46, 98>>

\* "/dns6/a.b"
S_dns6_adb ==
    <<47, 100, 110, 115, 54, 47, 97, 46, 98>>

\* "/dnsaddr/a.b"
S_dnsaddr_adb ==
    <<47, 100, 110, 115, 97, 100, 100, 114, 47, 97, 46, 98>>

\* "/dns4/a.b/tcp/80"
S_dns4_adb_tcp_80 ==
    <<47, 100, 110, 115, 52, 47, 97, 46, 98, 47, 116, 99, 112, 47, 56,
      48>>

\* "/tcp/80/dns4/a.b"
S_tcp_80_dns4_adb ==
    <<47, 116, 99, 112, 47, 56, 48, 47, 100, 110, 115, 52, 47, 97, 46,
      98>>

\* "127.0.0.1"
A_127d0d0d1 ==
    <<49, 50, 55, 46, 48, 46, 48, 46, 49>>

\* "1.2.3.4"
A_1d2d3d4 ==
    <<49, 46, 50, 46, 51, 46, 52>>

\* "::1"
AAAA_1 ==
    <<58, 58, 49>>

\* "2001:db8::1"
AAAA_2001_db8_1 ==
    <<50, 48, 48, 49, 58, 100, 98, 56, 58, 58, 49>>

\* "/dnsaddr/a.b/p2p/QmYyQSo1c1Ym7orWxLYvCrM2EmxFTANf8wXmmE7wjh53Qk", the
\* address of test_resolve_dns_addr_with_peer_id with a shorter host name
S_dnsaddr_adb_p2p_Qm == S_dnsaddr_adb \o SLASH \o N_p2p \o SLASH \o PEER_Qm

\* "/dnsaddr/a.b/p2p/Agytba7fhBHEmWWbXnLArsvBUSaBuZfqGw6GmyFzwPqDa": the peer
\* value is the base58 text of 33 bytes
S_dnsaddr_adb_p2p_33 == S_dnsaddr_adb \o SLASH \o N_p2p \o SLASH \o PEER_33

\* addresses that begin with a dns, dns4, dns6 or dnsaddr component
DnsStrings ==
    {S_dns_adb, S_dns4_adb, S_dns6_adb, S_dnsaddr_adb, S_dns4_adb_tcp_80,
     S_dnsaddr_adb_p2p_Qm, S_dnsaddr_adb_p2p_33}

\* the empty address and addresses that begin with another component
OtherStrings == {S_slash, S_tcp_80, S_ip4_1d2d3d4_tcp_80, S_tcp_80_dns4_adb}

ResolveStrings == DnsStrings \cup OtherStrings

\* options["max_recursive_depth"]; the default when the option is not given
DepthInputs == {-1, 0, 1, MAX_RECURSIVE_DEPTH}

\* the records of an answer to an A lookup and to an AAAA lookup
Records(rtype) ==
    IF rtype = "A" THEN {<<>>, <<A_127d0d0d1>>, <<A_1d2d3d4, A_127d0d0d1>>}
    ELSE {<<>>, <<AAAA_1>>, <<AAAA_2001_db8_1, AAAA_1>>}

\* a lookup still awaited
Pending == [kind |-> "pending", rdata |-> <<>>]

\* how a lookup ends by itself: with an answer, with dns.resolver.NXDOMAIN or
\* dns.resolver.NoAnswer, or with another exception of the DNS library
Replies(rtype) ==
    {[kind |-> "answer", rdata |-> r] : r \in Records(rtype)}
    \cup {[kind |-> k, rdata |-> <<>>] : k \in {"NXDOMAIN", "NoAnswer", "NoNameservers"}}

(***************************************************************************)
(* The steps of a call of resolve.                                         *)
(***************************************************************************)
\* the address at hand is one the constructor returned
Constructed == op = "construct" => out.err = ""

\* the caller awaits resolver.resolve(ma, options): the coroutine runs to its
\* first await
Resolve(d, sig) ==
    /\ pc = "ready"
    /\ Constructed
    /\ opts' = [max_recursive_depth |-> d, signal |-> sig]
    /\ \E e \in {ResolveEntry(cur, d)} :
          /\ pc' = e.pc
          /\ ret' = e.ret
          /\ peer_id' = e.peer_id
          /\ calls' = IF e.pc = "lookup"
                      THEN <<[hostname |-> e.hostname, rtype |-> e.rtype,
                              blocked |-> FALSE, reply |-> Pending]>>
                      ELSE <<>>
    /\ results' = <<>>
    /\ resolved' = None
    /\ UNCHANGED <<mvars, evars, signal>>

\* the awaited lookup ends with `reply` and the coroutine runs to its next
\* await or to its end
Resume(reply, next) ==
    /\ calls' = [calls EXCEPT ![Len(calls)].reply = reply]
                \o (IF next # ""
                    THEN <<[hostname |-> calls[Len(calls)].hostname,
                            rtype |-> next, blocked |-> FALSE,
                            reply |-> Pending]>>
                    ELSE <<>>)
    /\ UNCHANGED <<mvars, evars, opts, signal, peer_id>>

\* the lookup reaches a checkpoint inside the network primitive and waits
\* there, in flight; under a cancelled scope the checkpoint raises instead
LookupBlocks ==
    /\ pc = "lookup"
    /\ ~calls[Len(calls)].blocked
    /\ ~(opts.signal /\ signal = "cancelled")
    /\ calls' = [calls EXCEPT ![Len(calls)].blocked = TRUE]
    /\ UNCHANGED <<mvars, evars, pc, opts, signal, results, peer_id, resolved, ret>>

\* self._resolver.resolve(hostname, record_type) returns or raises
LookupReturns(reply) ==
    /\ pc = "lookup"
    /\ reply \in Replies(calls[Len(calls)].rtype)
    /\ \E s \in {ResolveStep(cur, calls[Len(calls)].rtype, results, peer_id, reply)} :
          /\ pc' = s.pc
          /\ results' = s.results
          /\ resolved' = s.resolved
          /\ ret' = s.ret
          /\ Resume(reply, s.next)

\* the caller cancels the scope it holds: signal.cancel()
Cancel ==
    /\ pc \in {"ready", "lookup"}
    /\ signal = "open"
    /\ signal' = "cancelled"
    /\ UNCHANGED <<mvars, evars, pc, opts, calls, results, peer_id, resolved, ret>>

\* the scope passed as options["signal"] is cancelled: the lookup awaited
\* inside `with signal:` raises trio.Cancelled at its checkpoint
LookupCancelled ==
    /\ pc = "lookup"
    /\ opts.signal
    /\ signal = "cancelled"
    /\ \E s \in {ResolveStep(cur, calls[Len(calls)].rtype, results, peer_id,
                             [kind |-> "Cancelled", rdata |-> <<>>])} :
          /\ pc' = s.pc
          /\ results' = s.results
          /\ resolved' = s.resolved
          /\ ret' = s.ret
          /\ Resume([kind |-> "Cancelled", rdata |-> <<>>], s.next)

\* _resolve_dnsaddr called without a signal awaits inside a cancel scope of
\* its own with a deadline DEFAULT_TIMEOUT from now: the deadline passes while
\* the lookup is awaited
Deadline ==
    /\ pc = "lookup"
    /\ ~opts.signal
    /\ FirstCode(cur) = P_DNSADDR
    /\ \E s \in {ResolveStep(cur, calls[Len(calls)].rtype, results, peer_id,
                             [kind |-> "Deadline", rdata |-> <<>>])} :
          /\ pc' = s.pc
          /\ results' = s.results
          /\ resolved' = s.resolved
          /\ ret' = s.ret
          /\ Resume([kind |-> "Deadline", rdata |-> <<>>], s.next)

\* the caller goes on with one of the addresses resolve returned and may
\* resolve that one in turn, with a cancel scope of its own
ResolveResult(i) ==
    /\ pc = "done"
    /\ ret.err = ""
    /\ i \in 1..Len(ret.val)
    /\ op' = "resolve"
    /\ prev' = cur
    /\ arg' = i
    /\ out' = Ok(ret.val[i])
    /\ cur' = ret.val[i]
    /\ src' = None
    /\ pc' = "ready"
    /\ opts' = [max_recursive_depth |-> 0, signal |-> FALSE]
    /\ signal' = "open"
    /\ calls' = <<>>
    /\ results' = <<>>
    /\ peer_id' = None
    /\ resolved' = None
    /\ ret' = Ok(<<>>)
    /\ UNCHANGED evars

ResolverInit ==
    (\E s \in ResolveStrings : Construct(s)) /\ ResolverReady /\ ProcessReady

ResolverNext ==
    \/ \E d \in DepthInputs, sig \in BOOLEAN : Resolve(d, sig)
    \/ \E k \in {"A", "AAAA"} : \E reply \in Replies(k) : LookupReturns(reply)
    \/ LookupBlocks
    \/ Cancel
    \/ LookupCancelled
    \/ Deadline
    \/ \E i \in 1..2 : ResolveResult(i)

ResolverSpec == ResolverInit /\ [][ResolverNext]_vars


(***************************************************************************)
(* The wire format, read strictly and apart from the code: a buffer is     *)
(* well formed when it is a sequence of complete components, each the      *)
(* varint of a registered code followed by a value of the protocol's fixed *)
(* size or by a varint length and that many bytes.                         *)
(***************************************************************************)
\* bytes of a fixed-size value, -1 for a length-prefixed one
WireSize(code) ==
    CASE code = P_IP4         -> 4
      [] code = P_IP6         -> 16
      [] code = P_TCP         -> 2
      [] code = P_UDP         -> 2
      [] code = P_P2P_CIRCUIT -> 0
      [] OTHER                -> -1

Malformed == [ok |-> FALSE, comps |-> <<>>]

RECURSIVE ComponentsFrom(_, _)
\* the components from position pos: where each starts, its code and its value
ComponentsFrom(buf, pos) ==
    LET Rest(c, r) == IF r.ok THEN [ok |-> TRUE, comps |-> <<c>> \o r.comps] ELSE r
        Value(code, at, n) ==
            IF at + n > Len(buf) THEN Malformed
            ELSE Rest([start |-> pos, code |-> code, part |-> SubSeq(buf, at + 1, at + n)],
                      ComponentsFrom(buf, at + n))
        Sized(code, size) ==
            IF size.err # "" THEN Malformed ELSE Value(code, size.pos, size.val)
        Code(code) ==
            IF code.err # "" \/ ~HasCode(code.val) THEN Malformed
            ELSE IF WireSize(code.val) >= 0
                 THEN Value(code.val, code.pos, WireSize(code.val))
                 ELSE Sized(code.val, DecodeStream(buf, code.pos))
    IN  IF pos >= Len(buf) THEN [ok |-> TRUE, comps |-> <<>>]
        ELSE Code(DecodeStream(buf, pos))

WellFormed(buf) == ComponentsFrom(buf, 0).ok

Components(buf) == ComponentsFrom(buf, 0).comps

\* the indices of the components of protocol `code`
WithCode(comps, code) == {i \in 1..Len(comps) : comps[i].code = code}

\* the offsets at which a component of buf starts, and its end
Boundaries(buf) ==
    {Components(buf)[i].start : i \in 1..Len(Components(buf))} \cup {Len(buf)}

\* a buffer of complete components that str() and iteration read to the end
Readable(buf) == WellFormed(buf) /\ Str(buf).err = "" /\ items(buf).err = ""

\* does t occur in s at index i (from 0)
OccursAt(s, t, i) == i + Len(t) <= Len(s) /\ SubSeq(s, i + 1, i + Len(t)) = t

Occurs(s, t) == \E i \in 0..Len(s) : OccursAt(s, t, i)

\* no "//" in the string and no "/" at its end
NoRedundantSlash(s) ==
    /\ s # <<>> => s[Len(s)] # 47
    /\ \A i \in 1..(Len(s) - 1) : ~(s[i] = 47 /\ s[i + 1] = 47)

\* the text the cid codec gives for the value of a p2p component
PeerValue(c) == CodecToString("cid", protocol_with_code(P_P2P), c.part).val

(***************************************************************************)
(* The claims.                                                             *)
(***************************************************************************)
\* C1: str(Multiaddr(s)) = s for every valid string s without redundant
\* slashes.  Fails: the cid codec puts its own length before the multihash and
\* string_to_bytes a second one, and str() shows both as the peer id
\* ("/p2p/a" comes back as "/p2p/5z").
C1_RoundTrip ==
    (op = "str" /\ src.has /\ NoRedundantSlash(src.value))
        => (out.err = "" /\ out.val = src.value)

\* C2: a.encapsulate(b).decapsulate(b) = a: a decapsulate of b that follows the
\* encapsulate of the same b gives back the receiver of the encapsulate, also
\* when b is empty and when b's bytes occur inside a.
C2_EncapsulateDecapsulate ==
    [][(op = "encapsulate" /\ op' = "decapsulate" /\ arg' = arg)
           => (out'.err = "" /\ cur' = prev)]_vars

\* C2's case: b, not empty, was taken off a \o b, and b also occurs inside a
C2_Witness ==
    /\ op = "decapsulate"
    /\ arg # <<>>
    /\ prev = cur \o arg
    /\ Occurs(cur, arg)

C4_NotContainedRaises ==
    (op = "decapsulate" /\ ~Occurs(prev, arg)) => out.err = "ValueError"

\* C5: decapsulate_code(code) on a well-formed address returns the bytes before
\* the start of the last component of protocol code; without such a component
\* (the empty address included) it returns the address as it is, and does so
\* again on its own result.
C5_DecapsulateCodeLast ==
    (op = "decapsulate_code" /\ WellFormed(prev)) =>
        LET comps == Components(prev)
            hits == WithCode(comps, arg)
        IN  /\ out.err = ""
            /\ cur = out.val
            /\ IF hits = {}
               THEN cur = prev /\ decapsulate_code(cur, arg) = Ok(cur)
               ELSE cur = SubSeq(prev, 1, comps[Max(hits)].start)

\* C5's case: two components of the code, the first of them kept
C5_Witness ==
    /\ op = "decapsulate_code"
    /\ WellFormed(prev)
    /\ Cardinality(WithCode(Components(prev), arg)) = 2
    /\ WithCode(Components(cur), arg) # {}

C8_MalformedRejected ==
    (op = "construct" /\ arg \in InvalidStrings) => out.err = "StringParseError"

\* C9: the empty string and "/" both parse to the address of no component.
\* Fails: the empty string raises StringParseError("Empty string").
C9_EmptyAndSlash ==
    (op = "construct" /\ arg \in {S_empty, S_slash}) => (out.err = "" /\ cur = <<>>)

\* C10 as claimed: every address made from valid strings by join, encapsulate,
\* decapsulate, decapsulate_code and split is a sequence of complete
\* components that str() and iteration read.  Fails: decapsulate cuts where
\* other's bytes are found, which may be inside a component.
C10_BufferInvariant == Alive => Readable(cur)

\* C10 as amended: an address parsed from a valid string is a sequence of
\* complete components that str() and iteration read, and so is what join,
\* encapsulate, decapsulate_code and split make of such addresses, and what
\* decapsulate makes when it cuts where a component of the receiver starts.
C10_BufferInvariantAligned ==
    /\ (op = "construct" /\ Alive) => Readable(cur)
    /\ (op = "encapsulate" /\ Readable(prev) /\ Readable(arg)) => Readable(cur)
    /\ (op \in {"decapsulate_code", "take", "join"} /\ Readable(prev) /\ out.err = "")
           => Readable(cur)
    /\ (op = "split" /\ Readable(prev) /\ out.err = "")
           => \A i \in 1..Len(out.val) : Readable(out.val[i])
    /\ (op = "decapsulate" /\ Readable(prev) /\ Len(cur) \in Boundaries(prev))
           => Readable(cur)

\* C10's case: a decapsulate that cut a readable address of several
\* components between two of them
C10_Witness ==
    /\ op = "decapsulate"
    /\ Readable(prev)
    /\ Len(Components(prev)) >= 2
    /\ cur # <<>>
    /\ cur # prev
    /\ Len(cur) \in Boundaries(prev)


(***************************************************************************)
(* Claims about the resolver, stated of ResolverSpec.                      *)
(***************************************************************************)
\* the code of the first component of a buffer of complete components
LeadCode(buf) == Components(buf)[1].code

\* the address begins with a dns, dns4, dns6 or dnsaddr component
DnsLed(buf) ==
    /\ WellFormed(buf)
    /\ buf # <<>>
    /\ LeadCode(buf) \in {P_DNS, P_DNS4, P_DNS6, P_DNSADDR}

\* the address begins with a component of another protocol
OtherLed(buf) == WellFormed(buf) /\ buf # <<>> /\ ~DnsLed(buf)

\* C11: resolving an address whose first component is not dns, dns4, dns6 or
\* dnsaddr returns the one-element list of that address, unchanged, and issues
\* no lookup; so resolving an ip4- or ip6-led result of an earlier resolution
\* returns it as it is.
C11_PassThrough ==
    (pc = "done" /\ OtherLed(cur)) => (ret = Ok(<<cur>>) /\ calls = <<>>)

\* C11's case: an ip6-led address that an earlier resolution of a dns address
\* returned was resolved in turn
C11_Witness ==
    /\ pc = "done"
    /\ op = "resolve"
    /\ DnsLed(prev)
    /\ OtherLed(cur)
    /\ LeadCode(cur) = P_IP6
    /\ ret = Ok(<<cur>>)
    /\ calls = <<>>


\* C12: resolving a dnsaddr address with max_recursive_depth <= 0 raises
\* RecursionLimitError; the caller gets it as RecursionLimitError, not wrapped
\* into ResolutionError, and no lookup was issued before it.
C12_RecursionLimit ==
    (pc # "ready" /\ DnsLed(cur) /\ LeadCode(cur) = P_DNSADDR
       /\ opts.max_recursive_depth <= 0)
        => (pc = "done" /\ ret.err = "RecursionLimitError" /\ calls = <<>>)

\* C12's case: a dnsaddr address was resolved with max_recursive_depth 0
C12_Witness ==
    /\ pc = "done"
    /\ DnsLed(cur)
    /\ LeadCode(cur) = P_DNSADDR
    /\ opts.max_recursive_depth = 0
    /\ ret.err = "RecursionLimitError"


\* the bytes of the components that follow the first one
Trailing(buf) ==
    IF Len(Components(buf)) >= 2
    THEN SubSeq(buf, Components(buf)[2].start + 1, Len(buf))
    ELSE <<>>

\* resolve returned addresses made from the records of its lookups
ResolvedSome == pc = "done" /\ ret.err = "" /\ resolved.has /\ resolved.value # <<>>

\* C13: each address a successful resolution of a dns, dns4, dns6 or dnsaddr
\* address returns is one ip4 or ip6 component followed by the components
\* that followed the DNS component in the input, in their order.  Fails: the
\* addresses returned are built from the record alone.
C13_TrailingPreserved ==
    (ResolvedSome /\ DnsLed(cur)) =>
        \A i \in 1..Len(ret.val) :
            /\ OtherLed(ret.val[i])
            /\ LeadCode(ret.val[i]) \in {P_IP4, P_IP6}
            /\ Trailing(ret.val[i]) = Trailing(cur)


\* the peer id the string the address was parsed from ends with, if any
OriginalPeer ==
    LET sp == Split(src.value, 47)
    IN  IF src.has /\ Len(sp) >= 3 /\ sp[Len(sp) - 1] = N_p2p
        THEN Some(sp[Len(sp)]) ELSE None

\* a base58btc multihash: a hash code, a length and that many bytes
IsMultihashText(peer) ==
    LET Shaped(d) == d.err = "" /\ Len(d.val) >= 2 /\ d.val[2] = Len(d.val) - 2
    IN  Shaped(B58Decode(peer))

\* C14: when a dnsaddr address carries a trailing, syntactically valid peer
\* id and a record resolves, get_peer_id() of every address resolve returns
\* is that peer id; when it carries none, no address returned has a p2p
\* component.  Fails: the peer id read back from the address is not the text
\* it was parsed from, is taken for invalid and is left off.
C14_PeerIdPreserved ==
    (ResolvedSome /\ DnsLed(cur) /\ LeadCode(cur) = P_DNSADDR) =>
        \A i \in 1..Len(ret.val) :
            /\ (OriginalPeer.has /\ IsMultihashText(OriginalPeer.value))
                   => get_peer_id(ret.val[i]) = Ok(OriginalPeer)
            /\ ~OriginalPeer.has
                   => WithCode(Components(ret.val[i]), P_P2P) = {}


\* a lookup that ended without a record: NXDOMAIN, NoAnswer or an empty answer
NoRecord(call) ==
    \/ call.reply.kind \in {"NXDOMAIN", "NoAnswer"}
    \/ (call.reply.kind = "answer" /\ call.reply.rdata = <<>>)

\* resolve has ended and every lookup it issued ended without a record
NoRecords ==
    /\ pc = "done"
    /\ calls # <<>>
    /\ \A i \in 1..Len(calls) : NoRecord(calls[i])

RTypes == [i \in 1..Len(calls) |-> calls[i].rtype]

\* resolve has ended and every lookup it issued was answered, with records or
\* with NXDOMAIN or NoAnswer
AllAnswered ==
    /\ pc = "done"
    /\ calls # <<>>
    /\ \A i \in 1..Len(calls) :
          calls[i].reply.kind \in {"answer", "NXDOMAIN", "NoAnswer"}

\* the addresses /ip4/<record> or /ip6/<record> of the records the lookup of
\* type rtype was answered with, in record order
Derived(rtype) ==
    LET fam == IF rtype = "A" THEN N_ip4 ELSE N_ip6
        Addrs(rdata) ==
            [k \in 1..Len(rdata) |-> FromString(SLASH \o fam \o SLASH \o rdata[k]).val]
        Of(cs) == IF cs = <<>> THEN <<>> ELSE Addrs(cs[1].reply.rdata)
    IN  Of(SelectSeq(calls, LAMBDA c : c.rtype = rtype))

UniqueLookups ==
    \A i, j \in 1..Len(calls) :
        (calls[i].hostname = calls[j].hostname /\ calls[i].rtype = calls[j].rtype)
            => i = j

\* the step in which the awaited lookup ends with an exception of the DNS
\* library: NXDOMAIN and NoAnswer leave results as they are and the
\* remaining record type is looked up, or resolve returns when there is none;
\* any other exception ends resolve with ResolutionError and no new lookup
LookupFails ==
    LET last == Len(calls)
        kind == calls'[last].reply.kind
        more == calls[last].rtype = "A" /\ LeadCode(cur) \in {P_DNS, P_DNSADDR}
    IN  (pc = "lookup" /\ kind \in {"NXDOMAIN", "NoAnswer", "NoNameservers"}) =>
            IF kind = "NoNameservers"
            THEN /\ pc' = "done"
                 /\ ret' = Fail("ResolutionError")
                 /\ Len(calls') = last
            ELSE /\ results' = results
                 /\ IF more
                    THEN /\ pc' = "lookup"
                         /\ Len(calls') = last + 1
                         /\ calls'[last + 1].rtype = "AAAA"
                    ELSE /\ pc' = "done"
                         /\ ret'.err = ""
                         /\ Len(calls') = last

\* C17: within one call of resolve each (host name, record type) is looked up
\* at most once; a lookup that fails with NXDOMAIN or NoAnswer adds no result
\* and resolution goes on with the remaining record type; any other failure
\* of a lookup ends resolve with one ResolutionError and no further lookup.
C17_NoRetry == [](UniqueLookups) /\ [][LookupFails]_vars

\* the A lookup of a dns address ended with NXDOMAIN, the AAAA lookup was
\* issued and failed otherwise, and resolve raised ResolutionError
C17_Witness ==
    /\ pc = "done"
    /\ DnsLed(cur) /\ LeadCode(cur) = P_DNS
    /\ Len(calls) = 2
    /\ calls[1].rtype = "A" /\ calls[1].reply.kind = "NXDOMAIN"
    /\ calls[2].rtype = "AAAA" /\ calls[2].reply.kind = "NoNameservers"
    /\ ret = Fail("ResolutionError")


\* the step in which resolve is called on a dns, dns4, dns6 or dnsaddr address
\* (within the recursion bound) with a signal that is cancelled already
CalledCancelled ==
    /\ pc = "ready" /\ pc' # "ready"
    /\ signal = "cancelled" /\ opts'.signal
    /\ DnsLed(cur)
    /\ LeadCode(cur) = P_DNSADDR => opts'.max_recursive_depth > 0

\* C18: when the signal passed to resolve is cancelled before a lookup is
\* issued, resolve issues no lookup and ends with an empty list and no
\* exception.  Fails: resolve awaits the lookup without looking at the signal.
C18_PreemptiveCancel ==
    [][CalledCancelled => (pc' = "done" /\ ret' = Ok(<<>>) /\ calls' = <<>>)]_vars


\* the lookup that was in flight inside the network primitive when the
\* supplied signal was cancelled has ended with trio.Cancelled, and resolve
\* has ended
CancelledInFlight ==
    /\ pc = "done"
    /\ opts.signal
    /\ calls # <<>>
    /\ calls[Len(calls)].blocked
    /\ calls[Len(calls)].reply.kind = "Cancelled"

\* C19: when the supplied signal is cancelled while a lookup is in flight,
\* the cancellation reaches the caller of resolve: resolve neither returns a
\* list nor raises ResolutionError.  Fails: the `with signal:` block absorbs
\* trio.Cancelled and resolve returns the original address.
C19_CancelPropagates == CancelledInFlight => ret = Fail("Cancelled")


(***************************************************************************)
(* Claims about peer ids, stated of Spec.                                  *)
(***************************************************************************)
\* the value of a character of the base32 alphabet a-z2-7
Base32Index(c) == IF c >= 97 THEN c - 97 ELSE c - 50 + 26

IsBase32(c) == c \in 97..122 \/ c \in 50..55

\* the bytes a base32 text without padding stands for: its bits, five to a
\* character, taken eight at a time
Base32Decode(text) ==
    LET Bit(k) ==
            (Base32Index(text[(k - 1) \div 5 + 1]) \div (2 ^ (4 - ((k - 1) % 5)))) % 2
        Byte(j) == [b \in 1..8 |-> Bit(8 * (j - 1) + b) * 2 ^ (8 - b)]
        Sum(s) == s[1] + s[2] + s[3] + s[4] + s[5] + s[6] + s[7] + s[8]
    IN  [j \in 1..((5 * Len(text)) \div 8) |-> Sum(Byte(j))]

\* a CIDv1 in multibase base32 (a leading "b") with the libp2p-key codec 0x72
\* and a multihash of the length it states
IsCidv1Base32(v) ==
    LET Shaped(b) ==
            /\ Len(b) >= 4
            /\ b[1] = 1 /\ b[2] = 114
            /\ b[4] = Len(b) - 4
    IN  /\ v # <<>> /\ v[1] = 98
        /\ \A i \in 2..Len(v) : IsBase32(v[i])
        /\ Shaped(Base32Decode(Tail(v)))

\* the base58btc text of the multihash of a CIDv1 in base32
Cidv0Form(v) ==
    LET Multihash(b) == SubSeq(b, 3, Len(b))
    IN  B58Encode(Multihash(Base32Decode(Tail(v))))

\* the address at hand was parsed from "/p2p/<value>" and str() was called
StrOfP2p ==
    /\ op = "str"
    /\ src.has
    /\ Len(Split(src.value, 47)) = 3
    /\ Split(src.value, 47)[2] = N_p2p

\* C20: str() of an address parsed from "/p2p/<value>" is "/p2p/" and the
\* CIDv0 base58btc form of the value when the value is a CIDv1 in base32,
\* and the string itself when the value is a base58btc multihash.  Fails:
\* the value is stored under two length prefixes and a base32 text that
\* happens to be base58 too is never parsed as a CIDv1.
C20_CidNormalized ==
    StrOfP2p =>
        LET v == Split(src.value, 47)[3]
        IN  IF IsCidv1Base32(v)
            THEN out = Ok(SLASH \o N_p2p \o SLASH \o Cidv0Form(v))
            ELSE IsMultihashText(v) => out = Ok(src.value)


(***************************************************************************)
(* Reading an address.  Multiaddr(addr) for bytes stores the buffer as it  *)
(* is, whatever it holds; the accessors parse it when they are called.  A  *)
(* behaviour of ReadSpec constructs one address, from a string or from a   *)
(* buffer, and reads it: out is what the accessor returned (a view read to *)
(* its end with list()) or the exception it raised.                        *)
(***************************************************************************)
\* Multiaddr.__getitem__(proto), proto given as the code of a registered
\* protocol: the tuples of bytes_iter are searched and the part of the first
\* match alone is decoded
getitem(self, code) ==
    LET Decoded(v) ==
            IF v.err # "" THEN Fail("BinaryParseError") ELSE Ok(Some(v.val))
        Match(it) ==
            IF CodecSize(it.codec) = 0 THEN Ok(None)
            ELSE Decoded(CodecToString(it.codec, it.proto, it.part))
        Found(r, hits) ==
            IF hits # {} THEN Match(r.items[Min(hits)])
            ELSE IF r.err # "" THEN Fail(r.err)
            ELSE Fail("ProtocolLookupError")
        Tuples(r) == Found(r, {i \in 1..Len(r.items) : r.items[i].proto.code = code})
    IN  Tuples(bytes_iter(self))

\* list(ma.protocols()): MultiAddrKeys.__iter__ read to its end, the
\* protocols by their codes
protocols(self) ==
    LET Keys(r) == IF r.err # "" THEN Fail(r.err)
                   ELSE Ok([i \in 1..Len(r.items) |-> r.items[i].proto.code])
    IN  Keys(bytes_iter(self))

\* list(ma.items()): the pairs of protocol code and value
items_list(self) ==
    LET Pair(p) == <<p.proto.code, IF p.hasval THEN Some(p.value) ELSE None>>
        Pairs(r) == IF r.err # "" THEN Fail(r.err)
                    ELSE Ok([i \in 1..Len(r.items) |-> Pair(r.items[i])])
    IN  Pairs(items(self))

\* list(ma.values()): MultiAddrValues.__iter__ over MultiAddrItems
values(self) ==
    LET Vals(r) == IF r.err # "" THEN r
                   ELSE Ok([i \in 1..Len(r.val) |-> r.val[i][2]])
    IN  Vals(items_list(self))

\* "/unix/studio"
S_unix_studio ==
    <<47, 117, 110, 105, 120, 47, 115, 116, 117, 100, 105, 111>>

\* "/tcp/80/tcp/81"
S_tcp_80_tcp_81 ==
    <<47, 116, 99, 112, 47, 56, 48, 47, 116, 99, 112, 47, 56, 49>>

\* "/dns4/-a/tcp/80": "-a" is no IDNA label
S_dns4_hyphen_a_tcp_80 ==
    <<47, 100, 110, 115, 52, 47, 45, 97, 47, 116, 99, 112, 47, 56, 48>>

\* "/dnsaddr/a--b"
S_dnsaddr_a_b ==
    <<47, 100, 110, 115, 97, 100, 100, 114, 47, 97, 45, 45, 98>>

\* "/p2p-circuit/tcp/80"
S_p2p_circuit_tcp_80 ==
    <<47, 112, 50, 112, 45, 99, 105, 114, 99, 117, 105, 116, 47, 116, 99, 112, 47, 56, 48>>

\* the strings addresses are read from: every valid string of the inputs
\* above and these
ReadStrings ==
    ValidStrings \cup {S_unix_studio, S_tcp_80_tcp_81, S_dns4_hyphen_a_tcp_80,
                       S_dnsaddr_a_b, S_p2p_circuit_tcp_80}

\* "/tcp/udp"
S_tcp_udp ==
    <<47, 116, 99, 112, 47, 117, 100, 112>>

\* "/tcp/p2p-circuit"
S_tcp_p2p_circuit ==
    <<47, 116, 99, 112, 47, 112, 50, 112, 45, 99, 105, 114, 99, 117, 105, 116>>

\* "/tcp/abc"
S_tcp_abc ==
    <<47, 116, 99, 112, 47, 97, 98, 99>>

\* "/ip4/tcp/80"
S_ip4_tcp_80 ==
    <<47, 105, 112, 52, 47, 116, 99, 112, 47, 56, 48>>

\* "/ip4/p2p-circuit"
S_ip4_p2p_circuit ==
    <<47, 105, 112, 52, 47, 112, 50, 112, 45, 99, 105, 114, 99, 117, 105, 116>>

\* "/udp/x-y"
S_udp_x_y ==
    <<47, 117, 100, 112, 47, 120, 45, 121>>

\* strings in which a protocol that takes a value is followed by a token its
\* codec rejects: the name of another protocol, with and without a hyphen,
\* or no name at all
MissingValueStrings ==
    {S_tcp_udp, S_tcp_p2p_circuit, S_tcp_abc, S_ip4_tcp_80, S_ip4_p2p_circuit,
     S_udp_x_y, S_tcp_65536}

\* b"": no component
B_empty == <<>>

\* /tcp/80
B_tcp_80 == <<6, 0, 80>>

\* /tcp/80/tcp/81
B_tcp_80_tcp_81 == <<6, 0, 80, 6, 0, 81>>

\* /ip4/1.2.3.4/tcp/80
B_ip4_tcp == <<4, 1, 2, 3, 4, 6, 0, 80>>

\* /p2p-circuit/tcp/80
B_circuit_tcp == <<162, 2, 6, 0, 80>>

\* /unix/a
B_unix_a == <<144, 3, 1, 97>>

\* /dns/a
B_dns_a == <<53, 1, 97>>

\* b"\x35\x03a:b" of test_get_value_original: a dns value that is no name
B_dns_colon == <<53, 3, 97, 58, 98>>

\* a dns4 value "-a" that does not decode, followed by /tcp/80
B_dns4_hyphen_tcp == <<54, 2, 45, 97, 6, 0, 80>>

\* /tcp/80 followed by that dns4 value
B_tcp_dns4_hyphen == <<6, 0, 80, 54, 2, 45, 97>>

\* tcp with one byte of its two
B_tcp_short == <<6, 0>>

\* ip4 with two bytes of its four
B_ip4_short == <<4, 1, 2>>

\* dns with a length prefix of 5 and a single byte after it
B_dns_long_prefix == <<53, 5, 97>>

\* dns with a length prefix of 5 and nothing after it
B_dns_long_prefix_empty == <<53, 5>>

\* the code of dns and nothing after it
B_dns_no_length == <<53>>

\* a code that is not registered
B_unknown == <<99>>

\* /tcp/80 followed by that code
B_tcp_unknown == <<6, 0, 80, 99>>

\* a varint that does not end
B_open_varint == <<128>>

\* the buffers addresses are made from: complete components, values their
\* codec does not decode, values cut short, length prefixes beyond the end
\* and codes no protocol has
ByteInputs ==
    {B_empty, B_tcp_80, B_tcp_80_tcp_81, B_ip4_tcp, B_circuit_tcp, B_unix_a,
     B_dns_a, B_dns_colon, B_dns4_hyphen_tcp, B_tcp_dns4_hyphen, B_tcp_short,
     B_ip4_short, B_dns_long_prefix, B_dns_long_prefix_empty, B_dns_no_length,
     B_unknown, B_tcp_unknown, B_open_varint}

\* the protocols looked up, by code
RegisteredCodes == {PROTOCOLS[i].code : i \in 1..Len(PROTOCOLS)}

\* the state after ma = Multiaddr(b) for bytes: `self._bytes = addr`
ConstructBytes(b) ==
    /\ op = "construct_bytes"
    /\ prev = <<>>
    /\ arg = b
    /\ out = Ok(b)
    /\ cur = b
    /\ src = None

ReadInit ==
    /\ \/ \E s \in ReadStrings \cup MissingValueStrings : Construct(s)
       \/ \E b \in ByteInputs : ConstructBytes(b)
    /\ ResolverReady
    /\ ProcessReady

\* ma.value_for_protocol(c)
ValueForProtocol(c) ==
    /\ Constructed
    /\ op' = "value_for_protocol"
    /\ prev' = cur
    /\ arg' = c
    /\ out' = value_for_protocol(cur, c)
    /\ UNCHANGED <<cur, src>>
    /\ UNCHANGED <<rvars, evars>>

\* ma[c]
GetItem(c) ==
    /\ Constructed
    /\ op' = "getitem"
    /\ prev' = cur
    /\ arg' = c
    /\ out' = getitem(cur, c)
    /\ UNCHANGED <<cur, src>>
    /\ UNCHANGED <<rvars, evars>>

\* str(ma), whatever the address was made from
ReadStr ==
    /\ Constructed
    /\ op' = "str"
    /\ prev' = cur
    /\ arg' = <<>>
    /\ out' = Str(cur)
    /\ UNCHANGED <<cur, src>>
    /\ UNCHANGED <<rvars, evars>>

\* len(ma)
LenOp ==
    /\ Constructed
    /\ op' = "len"
    /\ prev' = cur
    /\ arg' = <<>>
    /\ out' = Length(cur)
    /\ UNCHANGED <<cur, src>>
    /\ UNCHANGED <<rvars, evars>>

\* list(ma.protocols())
Protocols ==
    /\ Constructed
    /\ op' = "protocols"
    /\ prev' = cur
    /\ arg' = <<>>
    /\ out' = protocols(cur)
    /\ UNCHANGED <<cur, src>>
    /\ UNCHANGED <<rvars, evars>>

\* list(ma.items())
Items ==
    /\ Constructed
    /\ op' = "items"
    /\ prev' = cur
    /\ arg' = <<>>
    /\ out' = items_list(cur)
    /\ UNCHANGED <<cur, src>>
    /\ UNCHANGED <<rvars, evars>>

\* list(ma.values())
Values ==
    /\ Constructed
    /\ op' = "values"
    /\ prev' = cur
    /\ arg' = <<>>
    /\ out' = values(cur)
    /\ UNCHANGED <<cur, src>>
    /\ UNCHANGED <<rvars, evars>>

ReadNext ==
    \/ \E c \in RegisteredCodes : ValueForProtocol(c)
    \/ \E c \in RegisteredCodes : GetItem(c)
    \/ ReadStr
    \/ LenOp
    \/ Protocols
    \/ Items
    \/ Values

ReadSpec == ReadInit /\ [][ReadNext]_vars


(***************************************************************************)
(* Claims about reading an address.                                        *)
(***************************************************************************)
\* what the string of an address says of protocol `code`: the value written
\* after the first occurrence of the protocol's name, None for a protocol
\* written without one, ProtocolLookupError when the name does not occur
WrittenValue(string, code) ==
    LET First(its, hits) ==
            IF hits = {} THEN Fail("ProtocolLookupError")
            ELSE Ok(IF its[Min(hits)].hasval
                    THEN Some(its[Min(hits)].value) ELSE None)
        Tuples(its) == First(its, {i \in 1..Len(its) : its[i].proto.code = code})
    IN  Tuples(string_iter(string).val)

\* value_for_protocol was called on an address made from a string
ValueRead == op = "value_for_protocol" /\ src.has

\* C21: value_for_protocol(proto) returns the value of the first component
\* of that protocol in the address, None for a protocol that carries no
\* value, and raises ProtocolLookupError when the address has no component
\* of that protocol.  Fails: the value of a p2p component comes back under
\* the length prefix it was stored with, and a dns name that was stored but
\* does not decode raises BinaryParseError for its protocol and for every
\* protocol after it.
C21_ValueForProtocol == ValueRead => out = WrittenValue(src.value, arg)


\* the number of elements split(maxsplit) is to return for n components
SplitCount(n, maxsplit) ==
    IF maxsplit = -1 \/ n <= maxsplit THEN n ELSE maxsplit + 1

\* the buffer holds exactly one component of the wire format
SingleComponent(buf) == WellFormed(buf) /\ Len(Components(buf)) = 1

\* C22: split(maxsplit) of an address of n complete components returns n
\* elements for maxsplit = -1 or n <= maxsplit and maxsplit + 1 otherwise;
\* every element but a final remainder is one single component, the
\* remainder is the rest of the address, and the elements' buffers
\* concatenated give the buffer of the address.
C22_Split ==
    (op = "split" /\ WellFormed(prev)) =>
        /\ out.err = ""
        /\ Len(out.val) = SplitCount(Len(Components(prev)), arg)
        /\ \A i \in 1..Len(out.val) :
              \/ SingleComponent(out.val[i])
              \/ /\ i = Len(out.val)
                 /\ i = arg + 1
                 /\ WellFormed(out.val[i])
                 /\ Len(Components(out.val[i])) = Len(Components(prev)) - arg
        /\ Concat(out.val) = prev

\* an address of three components was split once: one component and a
\* remainder of two
C22_Witness ==
    /\ op = "split"
    /\ WellFormed(prev)
    /\ Len(Components(prev)) = 3
    /\ arg = 1
    /\ Len(out.val) = 2
    /\ Len(Components(out.val[2])) = 2


(***************************************************************************)
(* The protocol registry: add(protocol) and lock().  A behaviour of        *)
(* RegistrySpec starts from the built-in protocols in a registry that is   *)
(* not locked yet; callers add protocols of their own and lock it.  A      *)
(* protocol counts here by its code and its name.                          *)
(***************************************************************************)
\* "foo", "bar" and "baz"
N_foo == <<102, 111, 111>>

N_bar == <<98, 97, 114>>

N_baz == <<98, 97, 122>>

\* the protocols callers try to add: new names and three codes no built-in
\* protocol has, and the code and the name of the built-in ip4 and tcp
AddInputs ==
    {[code |-> c, name |-> n] : c \in {P_IP4, P_TCP, 777, 778, 779},
                                n \in {N_ip4, N_tcp, N_foo, N_bar, N_baz}}

\* add that looks for the code alone: a protocol under a name that is taken
\* is added
add_by_code(reg, lck, proto) ==
    IF lck THEN [registry |-> reg, out |-> Fail("ProtocolRegistryLocked")]
    ELSE IF \E q \in reg : q.code = proto.code
         THEN [registry |-> reg, out |-> FailMsg("ProtocolExistsError", "code")]
    ELSE [registry |-> reg \cup {proto}, out |-> Ok(proto)]

\* ProtocolRegistry.add(proto) on a registry reg that is locked or not: the
\* registry it leaves and its outcome
add(reg, lck, proto) ==
    IF lck THEN [registry |-> reg, out |-> Fail("ProtocolRegistryLocked")]
    ELSE IF \E q \in reg : q.code = proto.code
         THEN [registry |-> reg, out |-> FailMsg("ProtocolExistsError", "code")]
    ELSE IF \E q \in reg : q.name = proto.name
         THEN [registry |-> reg, out |-> FailMsg("ProtocolExistsError", "name")]
    ELSE [registry |-> reg \cup {proto}, out |-> Ok(proto)]

\* the registry before any caller has touched it
RegistryInit ==
    /\ op = "registry"
    /\ prev = <<>>
    /\ arg = <<>>
    /\ out = Ok(<<>>)
    /\ cur = <<>>
    /\ src = None
    /\ ResolverReady
    /\ registry = Registered(PROTOCOLS)
    /\ locked = FALSE
    /\ is_path = FALSE
    /\ threads = [t \in Threads |-> Idle]

\* registry.add(p)
Add(p) ==
    /\ op' = "add"
    /\ arg' = p
    /\ \E r \in {add(registry, locked, p)} :
          /\ registry' = r.registry
          /\ out' = r.out
    /\ UNCHANGED <<cur, src, prev, locked, is_path, threads>>
    /\ UNCHANGED rvars

\* registry.lock()
Lock ==
    /\ op' = "lock"
    /\ arg' = <<>>
    /\ out' = Ok(<<>>)
    /\ locked' = TRUE
    /\ UNCHANGED <<cur, src, prev, registry, is_path, threads>>
    /\ UNCHANGED rvars

RegistryNext ==
    \/ \E p \in AddInputs : Add(p)
    \/ Lock

RegistrySpec == RegistryInit /\ [][RegistryNext]_vars

\* no two registered protocols share a code or a name
UniqueCodesAndNames ==
    \A p, q \in registry : (p.code = q.code \/ p.name = q.name) => p = q

\* the code or the name of the protocol is registered
Taken(proto) == \E q \in registry : q.code = proto.code \/ q.name = proto.name

\* a step that is a call of add: what it raised and what it left
AddStep ==
    op' = "add" =>
        /\ Taken(arg') => (out'.err # "" /\ (~locked => out'.err = "ProtocolExistsError"))
        /\ locked => (out'.err # "" /\ (~Taken(arg') => out'.err = "ProtocolRegistryLocked"))
        /\ out'.err # "" => registry' = registry
        /\ out'.err = "" => registry' = registry \cup {arg'}

\* once locked the registry stays locked and keeps its contents
LockedStep == locked => (locked' /\ registry' = registry)

\* C23: over any sequence of add and lock, add(protocol) fails with
\* ProtocolExistsError when the protocol's code or name is registered and
\* with ProtocolRegistryLocked once the registry is locked, a failed add
\* leaves the registry unchanged, codes and names stay unique and the
\* contents never change after lock.
C23_RegistrySafety ==
    /\ []UniqueCodesAndNames
    /\ [][AddStep]_vars
    /\ [][LockedStep]_vars

\* callers added two protocols, locked the registry and a later add was
\* refused
C23_Witness ==
    /\ op = "add"
    /\ locked
    /\ out.err = "ProtocolRegistryLocked"
    /\ Cardinality(registry) = Len(PROTOCOLS) + 2


\* the unix value of an address made from a string was looked up and found
UnixValueRead ==
    /\ op = "value_for_protocol"
    /\ arg = P_UNIX
    /\ src.has
    /\ out.err = ""

\* C24: the value of a path protocol carries exactly one leading slash,
\* as in Multiaddr("/unix/studio").value_for_protocol("unix") == "/studio";
\* the stored payload has none, and str() appends the value right after the
\* protocol's name.  Fails: fspath.to_string strips the slashes and returns
\* the value without a leading one.
C24_PathLeadingSlash ==
    UnixValueRead =>
        /\ out.val.has
        /\ Len(out.val.value) >= 2
        /\ out.val.value[1] = 47
        /\ out.val.value[2] # 47
        /\ Components(cur)[Min(WithCode(Components(cur), P_UNIX))].part[1] # 47
        /\ \E head \in {SubSeq(src.value, 1, i) : i \in 0..Len(src.value)} :
              Str(cur) = Ok(head \o SLASH \o N_unix \o out.val.value)


\* the payload begins with a one-byte varint of the length of its own rest
InnerPrefixed(part) == part # <<>> /\ part[1] = Len(part) - 1

\* C25: string_to_bytes emits for each protocol and value of the string, in
\* order, varint(code), one varint length prefix exactly when the codec is
\* variable-size, and the payload; the prefix is the payload's length and
\* the payload holds no second length prefix: a p2p payload is the
\* multihash its base58 text stands for.  Fails: the cid codec returns its
\* payload under a length prefix of its own and string_to_bytes adds the
\* second.
C25_WireFormat ==
    (op = "construct" /\ src.has) =>
        LET Emitted(its, comps) ==
                /\ Len(comps) = Len(its)
                /\ \A i \in 1..Len(its) :
                      /\ comps[i].code = its[i].proto.code
                      /\ WireSize(comps[i].code) < 0 => ~InnerPrefixed(comps[i].part)
                      /\ (comps[i].code = P_P2P /\ IsMultihashText(its[i].value))
                             => comps[i].part = B58Decode(its[i].value).val
        IN  WellFormed(cur) /\ Emitted(string_iter(src.value).val, Components(cur))


\* the segments of a string that are not empty
Tokens(string) == SelectSeq(Split(string, 47), LAMBDA x : x # <<>>)

\* the string begins with a protocol that takes a value, other than the path
\* protocol, and goes on with a token the protocol's codec rejects
ValueRejected(string) ==
    LET Rejected(proto, token) ==
            /\ WantsValue(proto)
            /\ proto.name # N_unix
            /\ CodecToBytes(proto.codec, proto, token).err # ""
        Begins(sp) ==
            /\ Len(sp) >= 2
            /\ HasName(sp[1])
            /\ Rejected(protocol_with_name(sp[1]), sp[2])
    IN  Begins(Tokens(string))

\* C26: when the token after a protocol that takes a value fails to encode,
\* parsing fails with "Protocol <name> requires a value" if the token is a
\* registered protocol name, hyphenated ones such as p2p-circuit included,
\* and with "Invalid value" only if it is not.  Fails: the registry is
\* asked only about tokens that are alphanumeric, so "p2p-circuit" is
\* reported as an invalid value.
C26_MissingValue ==
    (op = "construct" /\ ValueRejected(arg)) =>
        out = FailMsg("StringParseError",
                      IF HasName(Tokens(arg)[2])
                      THEN "Protocol requires a value" ELSE "Invalid value")


\* an address made from a buffer that is no sequence of complete components
\* was read by str(), len(), protocols() or items()
MalformedRead ==
    /\ op \in {"str", "len", "protocols", "items"}
    /\ ~src.has
    /\ ~WellFormed(prev)

\* C27: Multiaddr(bytes) never fails at construction; when the buffer is
\* malformed (a fixed-size payload cut short, a length prefix larger than
\* what is left, an unknown protocol code) str(), len(), protocols() and
\* items() each fail with BinaryParseError.  Fails: a read behind the end of
\* the buffer returns the bytes there are, so len() and protocols() count a
\* component that is cut short and str() prints a value shorter than its
\* length prefix says.
C27_LazyValidation ==
    /\ op = "construct_bytes" => out.err = ""
    /\ MalformedRead => out.err = "BinaryParseError"


\* C29: ma[proto] and ma.value_for_protocol(proto) have the same outcome,
\* value or error, for every buffer and every protocol, also when a
\* component before the first match holds a value that does not decode.
\* Fails: ma[proto] decodes the matching component alone, while
\* value_for_protocol decodes every component on its way to the match.
C29_IndexedLookupAgrees ==
    /\ op = "getitem" => out = value_for_protocol(prev, arg)
    /\ op = "value_for_protocol" => out = getitem(prev, arg)


\* C30: an address that Multiaddr(s) made from a string is always readable:
\* str(), items() and values() raise no BinaryParseError, for dns names in
\* particular, whose encoding is to validate what decoding validates.
\* Fails: domain.to_bytes encodes any text and domain.to_string checks the
\* labels, so a name such as "-a" is stored and cannot be read back.
C30_StringConstructedReadable ==
    (op \in {"str", "items", "values"} /\ src.has) => out.err = ""


(***************************************************************************)
(* Threads.  codec_by_name hands every caller the same Codec object, and   *)
(* the utf8 codec keeps a flag on it: to_bytes and to_string set           *)
(* self._is_path and the property IS_PATH reads it.  A behaviour of        *)
(* ThreadSpec lets the threads of the process convert one component of a   *)
(* utf8 protocol each, in any interleaving: bytes_to_string calls          *)
(* codec.to_string and then reads codec.IS_PATH to join the name and the   *)
(* value, string_to_bytes calls codec.to_bytes.  Between the write of the  *)
(* flag and the read of it another thread may run.                         *)
(***************************************************************************)
\* the built-in protocol of the utf8 codec
Ip6zone == protocol_with_name(N_ip6zone)

\* a protocol a caller added with the utf8 codec before the registry was
\* locked
CallerProtocol == [code |-> 777, name |-> N_foo, codec |-> "utf8"]

Utf8Protocols == {Ip6zone, CallerProtocol}

\* payloads: "x", "/x", " /x", an empty one and one that is no UTF-8
Utf8Parts == {<<120>>, <<47, 120>>, <<32, 47, 120>>, <<>>, <<255>>}

\* value texts: "x", "/x" and "%2Fx"
Utf8Values == {<<120>>, <<47, 120>>, <<37, 50, 70, 120>>}

\* the string bytes_to_string appends for one component, once the value is
\* decoded and codec.IS_PATH has been read as is_p
Joined(proto, value, is_p) ==
    IF is_p /\ StartsWith(value, SLASH)
    THEN SLASH \o proto.name \o value
    ELSE SLASH \o proto.name \o SLASH \o value

\* the outcome of the call when no other thread runs
Alone(call) ==
    LET Decoded(v) ==
            IF v.err # "" THEN Fail("BinaryParseError")
            ELSE Ok(Joined(call.proto, v.val, CodecIsPath("utf8", call.proto)))
        Encoded(b) == IF b.err # "" THEN Fail("StringParseError") ELSE b
    IN  IF call.kind = "bytes_to_string"
        THEN Decoded(Utf8ToString(call.proto, call.part))
        ELSE Encoded(Utf8ToBytes(call.proto, call.part))

ThreadInit ==
    /\ op = "threads"
    /\ prev = <<>>
    /\ arg = <<>>
    /\ out = Ok(<<>>)
    /\ cur = <<>>
    /\ src = None
    /\ ResolverReady
    /\ ProcessReady

\* thread t calls bytes_to_string on a buffer whose component is of
\* protocol proto with payload part, and has read the code and the length
CallBytesToString(t, proto, part) ==
    /\ threads[t].pc = "idle"
    /\ threads' = [threads EXCEPT ![t] =
                       [Idle EXCEPT !.pc = "to_string", !.kind = "bytes_to_string",
                                    !.proto = proto, !.part = part]]
    /\ UNCHANGED <<mvars, rvars, registry, locked, is_path>>

\* thread t calls string_to_bytes on a string of protocol proto followed by
\* value, and has split it
CallStringToBytes(t, proto, value) ==
    /\ threads[t].pc = "idle"
    /\ threads' = [threads EXCEPT ![t] =
                       [Idle EXCEPT !.pc = "to_bytes", !.kind = "string_to_bytes",
                                    !.proto = proto, !.part = value]]
    /\ UNCHANGED <<mvars, rvars, registry, locked, is_path>>

\* codec.to_string(proto, part) in thread t: the flag is set once the buffer
\* is seen not to be empty; an exception ends bytes_to_string with a
\* BinaryParseError
ThreadToString(t) ==
    /\ threads[t].pc = "to_string"
    /\ \E v \in {Utf8ToString(threads[t].proto, threads[t].part)} :
          threads' = [threads EXCEPT ![t] =
              IF v.err # ""
              THEN [@ EXCEPT !.pc = "done", !.result = Fail("BinaryParseError")]
              ELSE [@ EXCEPT !.pc = "join", !.value = v.val]]
    /\ is_path' = (IF threads[t].part = <<>> THEN is_path
                   ELSE threads[t].proto.name = N_ip6zone)
    /\ UNCHANGED <<mvars, rvars, registry, locked>>

\* `if codec.IS_PATH and value.startswith("/")` in thread t: the flag is read
\* and the string of the component is made
Join(t) ==
    /\ threads[t].pc = "join"
    /\ threads' = [threads EXCEPT ![t] =
           [@ EXCEPT !.pc = "done", !.seen = is_path,
                     !.result = Ok(Joined(threads[t].proto, threads[t].value,
                                          is_path))]]
    /\ UNCHANGED <<mvars, rvars, registry, locked, is_path>>

\* codec.to_bytes(proto, value) in thread t: the flag is set once the value
\* is seen not to be empty; an exception ends string_to_bytes with a
\* StringParseError
ThreadToBytes(t) ==
    /\ threads[t].pc = "to_bytes"
    /\ \E b \in {Utf8ToBytes(threads[t].proto, threads[t].part)} :
          threads' = [threads EXCEPT ![t] =
              IF b.err # ""
              THEN [@ EXCEPT !.pc = "done", !.result = Fail("StringParseError")]
              ELSE [@ EXCEPT !.pc = "done", !.result = b]]
    /\ is_path' = (IF threads[t].part = <<>> THEN is_path
                   ELSE threads[t].proto.name = N_ip6zone)
    /\ UNCHANGED <<mvars, rvars, registry, locked>>

\* the call of thread t returns
Return(t) ==
    /\ threads[t].pc = "done"
    /\ threads' = [threads EXCEPT ![t] = Idle]
    /\ UNCHANGED <<mvars, rvars, registry, locked, is_path>>

ThreadNext ==
    \E t \in Threads :
        \/ \E proto \in Utf8Protocols, part \in Utf8Parts :
              CallBytesToString(t, proto, part)
        \/ \E proto \in Utf8Protocols, value \in Utf8Values :
              CallStringToBytes(t, proto, value)
        \/ ThreadToString(t)
        \/ Join(t)
        \/ ThreadToBytes(t)
        \/ Return(t)

ThreadSpec == ThreadInit /\ [][ThreadNext]_vars

\* every call that has ended, ended as it does when it runs alone
SameAsAlone ==
    \A t \in Threads : threads[t].pc = "done" => threads[t].result = Alone(threads[t])

=============================================================================
